---- MODULE Spec2Model ----
(***************************************************************************)
(* A model of the DwiSlpy toolchain: the return-behaviour checker, the     *)
(* tree-walking interpreter, the AST->IR translation, the IR->MIPS32 frame *)
(* layout and the two command-line drivers.                                 *)
(***************************************************************************)
EXTENDS Integers, Sequences, FiniteSets, TLC

(***************************************************************************)
(* Type  (dwislpy-check.hh)                                                 *)
(***************************************************************************)
IntTy == "int"
StrTy == "str"
BoolTy == "bool"
NoneTy == "None"
Type == {IntTy, StrTy, BoolTy, NoneTy}

\* A default-constructed std::variant holds its first alternative.
DefaultType == IntTy

is_int(type) == type = IntTy
is_str(type) == type = StrTy
is_bool(type) == type = BoolTy
is_None(type) == type = NoneTy

TypeEq(type1, type2) ==
    \/ is_int(type1) /\ is_int(type2)
    \/ is_str(type1) /\ is_str(type2)
    \/ is_bool(type1) /\ is_bool(type2)
    \/ is_None(type1) /\ is_None(type2)

(***************************************************************************)
(* Rtns  (dwislpy-check.hh): Void, VoidOr {t}, or a Type t.                 *)
(***************************************************************************)
Void == [k |-> "Void"]
VoidOr(t) == [k |-> "VoidOr", type |-> t]
RType(t) == [k |-> "Type", type |-> t]
Rtns == {Void} \cup {VoidOr(t) : t \in Type} \cup {RType(t) : t \in Type}

holds_Void(r) == r.k = "Void"
holds_VoidOr(r) == r.k = "VoidOr"
holds_Type(r) == r.k = "Type"

(***************************************************************************)
(* Errors.  A phase either completes or throws; kind tells the exception    *)
(* class, since the drivers catch DwislpyError only.                        *)
(***************************************************************************)
NoError == [kind |-> "none", msg |-> ""]
DwislpyError(ms) == [kind |-> "DwislpyError", msg |-> ms]
BadVariantAccess == [kind |-> "bad_variant_access", msg |-> "std::get: wrong index for variant"]
OutOfRange == [kind |-> "out_of_range", msg |-> "at"]
IsError(e) == e.kind # "none"

(***************************************************************************)
(* plus: the join of the return behaviours of the two branches.             *)
(* The result is [err, rtns]; rtns is meaningful only when err is NoError.  *)
(***************************************************************************)
Mismatch == DwislpyError("Return type behavior mismatch in Retn addition statement.")

plus(ret1, ret2) ==
    IF holds_Void(ret1) THEN
        IF holds_Void(ret2) THEN [err |-> NoError, rtns |-> Void]
        ELSE IF holds_VoidOr(ret2) THEN [err |-> NoError, rtns |-> ret2]
        ELSE [err |-> NoError, rtns |-> VoidOr(ret2.type)]
    ELSE IF holds_VoidOr(ret1) THEN
        IF holds_Void(ret2) THEN [err |-> NoError, rtns |-> ret1]
        ELSE IF holds_VoidOr(ret2) THEN
            IF TypeEq(ret1.type, ret2.type)
            THEN [err |-> NoError, rtns |-> ret1]
            ELSE [err |-> Mismatch, rtns |-> Void]
        ELSE
            IF TypeEq(ret1.type, ret2.type)
            THEN [err |-> NoError, rtns |-> ret1]
            ELSE [err |-> Mismatch, rtns |-> Void]
    ELSE
        IF holds_Void(ret2) THEN [err |-> NoError, rtns |-> VoidOr(ret1.type)]
        ELSE IF holds_VoidOr(ret2) THEN
            IF TypeEq(ret1.type, ret2.type)
            THEN [err |-> NoError, rtns |-> ret1]
            ELSE [err |-> Mismatch, rtns |-> Void]
        ELSE
            IF TypeEq(ret1.type, ret2.type)
            THEN [err |-> NoError, rtns |-> ret1]
            ELSE [err |-> Mismatch, rtns |-> Void]

type_of(rtns) ==
    IF holds_VoidOr(rtns) THEN rtns.type
    ELSE IF holds_Type(rtns) THEN rtns.type
    ELSE NoneTy

(***************************************************************************)
(* SymT  (dwislpy-check.hh).  sym_table maps a name to its SymInfo; formals *)
(* and locals are the ordered name vectors.  A SymInfo's frame_offset is    *)
(* not set by its constructor; NoOffset stands for the unset field.         *)
(***************************************************************************)
FRML == "FRML"
LOCL == "LOCL"
TEMP == "TEMP"
NoOffset == 1

SymInfo(nm, ty, id, kd) ==
    [name |-> nm, identifier |-> id, type |-> ty, kind |-> kd, frame_offset |-> NoOffset]

NewSymT ==
    [sym_table |-> <<>>, formals |-> <<>>, locals |-> <<>>, sym_id |-> 0, frame_size |-> 0]

\* sym_table[nm] = info: inserts the key or replaces the entry it already holds.
Put(tbl, nm, info) ==
    [n \in (DOMAIN tbl) \cup {nm} |-> IF n = nm THEN info ELSE tbl[n]]

add_frml(symt, nm, ty) ==
    [symt EXCEPT !.sym_table = Put(symt.sym_table, nm, SymInfo(nm, ty, 0, FRML)),
                 !.formals = Append(symt.formals, nm)]

add_locl(symt, nm, ty) ==
    [symt EXCEPT !.sym_table = Put(symt.sym_table, nm, SymInfo(nm, ty, symt.sym_id, LOCL)),
                 !.locals = Append(symt.locals, nm),
                 !.sym_id = symt.sym_id + 1]

has_info(symt, nm) == nm \in DOMAIN symt.sym_table
get_info(symt, nm) == symt.sym_table[nm]
get_frml(symt, i) == symt.sym_table[symt.formals[i]]
get_locl(symt, i) == symt.sym_table[symt.locals[i]]
get_frmls_size(symt) == Len(symt.formals)
get_locls_size(symt) == Len(symt.locals)

(***************************************************************************)
(* Valu  (dwislpy-ast.hh): variant<int, bool, std::string, none>.          *)
(* One record shape for the four alternatives: i carries the int or the    *)
(* bool (0/1), s the string.                                                *)
(***************************************************************************)
IntV(n) == [k |-> "int", i |-> n, s |-> ""]
BoolV(b) == [k |-> "bool", i |-> IF b THEN 1 ELSE 0, s |-> ""]
StrV(str) == [k |-> "str", i |-> 0, s |-> str]
NoneV == [k |-> "none", i |-> 0, s |-> ""]
\* Valu { } holds the first alternative, an int, value-initialised.
DefaultValu == IntV(0)

(***************************************************************************)
(* The AST  (dwislpy-ast.hh).  A block is the sequence of its statements.   *)
(***************************************************************************)
Ltrl(v) == [node |-> "Ltrl", valu |-> v]
Lkup(x) == [node |-> "Lkup", name |-> x]
BinOp(op, l, r) == [node |-> op, left |-> l, rght |-> r]
UnOp(op, e) == [node |-> op, expn |-> e]
Func(f, as) == [node |-> "Func", name |-> f, args |-> as]

Ntro(x, ty, e) == [node |-> "Ntro", name |-> x, type |-> ty, expn |-> e]
Asgn(x, e) == [node |-> "Asgn", name |-> x, expn |-> e]
PlEq(x, e) == [node |-> "PlEq", name |-> x, expn |-> e]
MiEq(x, e) == [node |-> "MiEq", name |-> x, expn |-> e]
Prnt(es) == [node |-> "Prnt", prms |-> es]
Pass == [node |-> "Pass"]
Whle(e, b) == [node |-> "Whle", expn |-> e, blck |-> b]
Tern(e, b1, b2) == [node |-> "Tern", expn |-> e, if_blck |-> b1, else_blck |-> b2]
Retn == [node |-> "Retn"]
RetE(e) == [node |-> "RetE", expn |-> e]
Proc(f, as) == [node |-> "Proc", name |-> f, args |-> as]

\* A definition: its formals are (name, type) pairs in declaration order.
Defn(nm, fs, rt, bk) == [name |-> nm, frmls |-> fs, rety |-> rt, blck |-> bk]
Prgm(ds, mn) == [defs |-> ds, main |-> mn]

\* The scope key of the main script in the table of symbol tables.
MainScope == "<main>"

DefNames(prgm) == {prgm.defs[i].name : i \in DOMAIN prgm.defs}
\* defs.count(name), defs.at(name)
defs_count(prgm, nm) == IF nm \in DefNames(prgm) THEN 1 ELSE 0
defs_at(prgm, nm) == prgm.defs[CHOOSE i \in DOMAIN prgm.defs : prgm.defs[i].name = nm]

(***************************************************************************)
(* Expn::chck  (dwislpy-check.cc).  The result is [err, type, tys]: the     *)
(* exception thrown (or NoError), the Type returned, and the Types returned *)
(* by the chck of every sub-expression and of the expression itself, in the *)
(* order the calls return.  S maps a scope (a definition's name, or         *)
(* MainScope) to its SymT; sc is the scope being checked.                   *)
(***************************************************************************)
ExpnOk(ty, tys) == [err |-> NoError, type |-> ty, tys |-> Append(tys, ty)]
ExpnThrow(e, tys) == [err |-> e, type |-> DefaultType, tys |-> tys]

ArithNodes == {"Mnus", "Tmes", "IDiv", "IMod"}
CmpNodes == {"Less", "LtEq"}
BoolNodes == {"Eqal", "Conj", "Disj"}
OperandMsg(node) ==
    CASE node = "Plus" -> "Wrong operand types for plus."
      [] node = "Mnus" -> "Wrong operand types for minus."
      [] node = "Tmes" -> "Wrong operand types for times."
      [] node = "IDiv" -> "Wrong operand types for iDiv."
      [] node = "IMod" -> "Wrong operand types for imod."
      [] node = "Less" -> "Wrong operand types for less."
      [] OTHER -> "Wrong operand types for less than or equal to."

Digit(d) == CASE d = 0 -> "0" [] d = 1 -> "1" [] d = 2 -> "2" [] d = 3 -> "3"
              [] d = 4 -> "4" [] d = 5 -> "5" [] d = 6 -> "6" [] d = 7 -> "7"
              [] d = 8 -> "8" [] OTHER -> "9"

RECURSIVE NatToStr(_)
NatToStr(n) == IF n < 10 THEN Digit(n) ELSE NatToStr(n \div 10) \o Digit(n % 10)

\* std::to_string(int): the decimal digits, with a leading '-' when negative.
IntToStr(n) == IF n < 0 THEN "-" \o NatToStr(0 - n) ELSE NatToStr(n)

ArgCountMsg(name, expected, saw) ==
    "Incorrect number of args found for function " \o name \o ": expected "
        \o IntToStr(expected) \o ", saw " \o IntToStr(saw) \o "."

\* Expn::type: declared without an initializer and assigned by no chck, so
\* every node holds the Type its default construction gave it.
expn_type(e) == DefaultType

Ltrl_chck(e) ==
    IF e.valu.k = "int" THEN IntTy
    ELSE IF e.valu.k = "str" THEN StrTy
    ELSE IF e.valu.k = "bool" THEN BoolTy
    ELSE NoneTy


\* Stmt::chck, Expn::chck: the call is dispatched on the node, as the virtual call is.
RECURSIVE Chck(_, _)
Expn_chck(e, prgm, S, sc) == Chck("Expn_chck", <<e, prgm, S, sc>>)
Args_chck(args, i, def, prgm, S, sc, tys) == Chck("Args_chck", <<args, i, def, prgm, S, sc, tys>>)
Func_chck(e, prgm, S, sc) == Chck("Func_chck", <<e, prgm, S, sc>>)
Asgn_chck(st, prgm, K, sc) == Chck("Asgn_chck", <<st, prgm, K, sc>>)
Ntro_chck(st, prgm, K, sc) == Chck("Ntro_chck", <<st, prgm, K, sc>>)
Prms_chck(prms, i, prgm, K, sc) == Chck("Prms_chck", <<prms, i, prgm, K, sc>>)
RetE_chck(st, expd, prgm, K, sc) == Chck("RetE_chck", <<st, expd, prgm, K, sc>>)
Proc_chck(st, prgm, K, sc) == Chck("Proc_chck", <<st, prgm, K, sc>>)
Blck_loop(stmts, i, retn, expd, prgm, K, sc) == Chck("Blck_loop", <<stmts, i, retn, expd, prgm, K, sc>>)
Blck_chck(stmts, expd, prgm, K, sc) == Chck("Blck_chck", <<stmts, expd, prgm, K, sc>>)
Tern_chck(st, expd, prgm, K, sc) == Chck("Tern_chck", <<st, expd, prgm, K, sc>>)
Whle_chck(st, expd, prgm, K, sc) == Chck("Whle_chck", <<st, expd, prgm, K, sc>>)
Stmt_chck(st, expd, prgm, K, sc) == Chck("Stmt_chck", <<st, expd, prgm, K, sc>>)
Defn_chck(def, prgm, K) == Chck("Defn_chck", <<def, prgm, K>>)
Defs_chck(prgm, i, K, rtns) == Chck("Defs_chck", <<prgm, i, K, rtns>>)
Prgm_chck(prgm, S) == Chck("Prgm_chck", <<prgm, S>>)

\* The argument loop shared by Proc::chck and Func::chck, from index i on.
Args_chck_body(args, i, def, prgm, S, sc, tys) ==
    IF i > Len(args) THEN [err |-> NoError, tys |-> tys]
    ELSE
        LET a == Expn_chck(args[i], prgm, S, sc) IN
        IF IsError(a.err) THEN [err |-> a.err, tys |-> tys \o a.tys]
        ELSE IF ~TypeEq(a.type, get_frml(S[def.name], i).type)
        THEN [err |-> DwislpyError("Type mismatch in argument for function call."),
              tys |-> tys \o a.tys]
        ELSE Args_chck(args, i + 1, def, prgm, S, sc, tys \o a.tys)

Func_chck_body(e, prgm, S, sc) ==
    IF defs_count(prgm, e.name) = 0
    THEN ExpnThrow(DwislpyError("Run-time error: procedure '" \o e.name \o "' is not defined."),
                   <<>>)
    ELSE
        LET def == defs_at(prgm, e.name) IN
        IF get_frmls_size(S[def.name]) # Len(e.args)
        THEN ExpnThrow(DwislpyError(ArgCountMsg(e.name, get_frmls_size(S[def.name]),
                                                Len(e.args))), <<>>)
        ELSE
            LET as == Args_chck(e.args, 1, def, prgm, S, sc, <<>>) IN
            IF IsError(as.err) THEN ExpnThrow(as.err, as.tys)
            ELSE ExpnOk(def.rety, as.tys)

Lkup_chck(e, S, sc) ==
    IF has_info(S[sc], e.name)
    THEN ExpnOk(get_info(S[sc], e.name).type, <<>>)
    ELSE ExpnThrow(DwislpyError("Unknown identifier."), <<>>)

\* The binary operators: left is checked, then rght, then the operand test.
BinaryResult(node, left_ty, rght_ty, tys) ==
    IF node = "Plus" THEN
        IF is_int(left_ty) /\ is_int(rght_ty) THEN ExpnOk(IntTy, tys)
        ELSE IF is_str(left_ty) /\ is_str(rght_ty) THEN ExpnOk(StrTy, tys)
        ELSE ExpnThrow(DwislpyError(OperandMsg(node)), tys)
    ELSE IF node \in ArithNodes THEN
        IF is_int(left_ty) /\ is_int(rght_ty) THEN ExpnOk(IntTy, tys)
        ELSE ExpnThrow(DwislpyError(OperandMsg(node)), tys)
    ELSE IF node \in CmpNodes THEN
        IF is_int(left_ty) /\ is_int(rght_ty) THEN ExpnOk(BoolTy, tys)
        ELSE ExpnThrow(DwislpyError(OperandMsg(node)), tys)
    ELSE ExpnOk(BoolTy, tys)

\* Negt, Inpt, IntC, StrC: the operand is checked, then the operand test.
UnaryResult(node, expn_ty, tys) ==
    IF node = "Negt" THEN ExpnOk(BoolTy, tys)
    ELSE IF node = "Inpt" THEN
        IF is_str(expn_ty) THEN ExpnOk(StrTy, tys)
        ELSE ExpnThrow(DwislpyError("Wrong expression type for input, expected str."), tys)
    ELSE IF node = "IntC" THEN
        IF is_None(expn_ty) THEN ExpnThrow(DwislpyError("Cannot convert nonetype to int"), tys)
        ELSE ExpnOk(IntTy, tys)
    ELSE
        IF is_None(expn_ty) THEN ExpnThrow(DwislpyError("Cannot convert nonetype to str"), tys)
        ELSE ExpnOk(StrTy, tys)

Expn_chck_body(e, prgm, S, sc) ==
    CASE e.node = "Ltrl" -> ExpnOk(Ltrl_chck(e), <<>>)
      [] e.node = "Lkup" -> Lkup_chck(e, S, sc)
      [] e.node = "Func" -> Func_chck(e, prgm, S, sc)
      [] e.node \in {"Negt", "Inpt", "IntC", "StrC"} ->
            LET x == Expn_chck(e.expn, prgm, S, sc) IN
            IF IsError(x.err) THEN x
            ELSE UnaryResult(e.node, x.type, x.tys)
      [] OTHER ->
            LET l == Expn_chck(e.left, prgm, S, sc) IN
            IF IsError(l.err) THEN l
            ELSE
                LET r == Expn_chck(e.rght, prgm, S, sc) IN
                IF IsError(r.err) THEN ExpnThrow(r.err, l.tys \o r.tys)
                ELSE BinaryResult(e.node, l.type, r.type, l.tys \o r.tys)

(***************************************************************************)
(* Stmt::chck, Blck::chck  (dwislpy-check.cc).  K = [S, tys, brs, log] is   *)
(* what a check has written so far: the symbol tables, the Types returned   *)
(* by Expn::chck and the Rtns returned by Blck::chck, each in call-return   *)
(* order, and the history of the check: each update of retn in a block,     *)
(* each return statement let through, each print parameter and each         *)
(* introduction.  The result is [err, rtns, K].                             *)
(***************************************************************************)
KLog(K, event) == [K EXCEPT !.log = Append(K.log, event)]
StmtOk(r, K) == [err |-> NoError, rtns |-> r, K |-> K]
StmtThrow(e, K) == [err |-> e, rtns |-> Void, K |-> K]
WithTys(K, tys) == [K EXCEPT !.tys = K.tys \o tys]

\* Retn::chck with its final throw left out: a bare return is let through
\* where no return is expected.
Retn_rtns_no_throw(expd) ==
    IF holds_Type(expd) /\ ~TypeEq(NoneTy, type_of(expd))
    THEN [err |-> DwislpyError("Type mismatch for procedure return."), rtns |-> Void]
    ELSE IF holds_VoidOr(expd) /\ ~TypeEq(NoneTy, expd.type)
    THEN [err |-> DwislpyError("Type mismatch for procedure return."), rtns |-> Void]
    ELSE [err |-> NoError, rtns |-> RType(DefaultType)]

\* Retn::chck after computing expn_ty = NoneTy: what it returns or throws.
Retn_rtns(expd) ==
    IF holds_Type(expd) THEN
        IF TypeEq(NoneTy, type_of(expd))
        THEN [err |-> NoError, rtns |-> RType(DefaultType)]
        ELSE [err |-> DwislpyError("Type mismatch for procedure return."), rtns |-> Void]
    ELSE IF holds_VoidOr(expd) THEN
        IF TypeEq(NoneTy, expd.type)
        THEN [err |-> NoError, rtns |-> RType(DefaultType)]
        ELSE [err |-> DwislpyError("Type mismatch for procedure return."), rtns |-> Void]
    ELSE [err |-> DwislpyError("Unexpected return for void procedure."), rtns |-> Void]

\* RetE::chck after expn->chck returned expn_ty: what it returns or throws.
RetE_rtns(expn_ty, expd) ==
    IF holds_Type(expd) THEN
        IF TypeEq(expn_ty, type_of(expd))
        THEN [err |-> NoError, rtns |-> RType(DefaultType)]
        ELSE [err |-> DwislpyError("Type mismatch for function return."), rtns |-> Void]
    ELSE IF holds_VoidOr(expd) THEN
        IF TypeEq(expn_ty, expd.type)
        THEN [err |-> NoError, rtns |-> RType(DefaultType)]
        ELSE [err |-> DwislpyError("Type mismatch for function return."), rtns |-> Void]
    ELSE [err |-> DwislpyError("Unexpected return for void function."), rtns |-> Void]

\* An update of retn that keeps the Rtns of the latest statement only.
Blck_seq_last(retn, stmt_rtns) == stmt_rtns

\* The update of retn by one statement's Rtns in the loop of Blck::chck.
Blck_seq(retn, stmt_rtns) ==
    IF holds_Void(retn) THEN stmt_rtns
    ELSE IF holds_VoidOr(retn) THEN
        IF holds_Type(stmt_rtns) THEN stmt_rtns ELSE retn
    ELSE retn

TypeMismatchMsg(name_ty) == "Type mismatch. Expected expression of type " \o name_ty \o "."

\* Asgn::chck, PlEq::chck, MiEq::chck share one body.
Asgn_chck_body(st, prgm, K, sc) ==
    IF ~has_info(K.S[sc], st.name)
    THEN StmtThrow(DwislpyError("Variable '" \o st.name \o "' never introduced."), K)
    ELSE
        LET name_ty == get_info(K.S[sc], st.name).type
            x == Expn_chck(st.expn, prgm, K.S, sc)
        IN  IF IsError(x.err) THEN StmtThrow(x.err, WithTys(K, x.tys))
            ELSE IF ~TypeEq(name_ty, x.type)
            THEN StmtThrow(DwislpyError(TypeMismatchMsg(name_ty)), WithTys(K, x.tys))
            ELSE StmtOk(Void, WithTys(K, x.tys))

Ntro_chck_body(st, prgm, K, sc) ==
    LET K1 == KLog([K EXCEPT !.S[sc] = add_locl(K.S[sc], st.name, st.type)],
                   [ev |-> "ntro", sc |-> sc, name |-> st.name, type |-> st.type,
                    had |-> has_info(K.S[sc], st.name),
                    was |-> IF has_info(K.S[sc], st.name)
                            THEN get_info(K.S[sc], st.name).type ELSE st.type])
        name_ty == get_info(K1.S[sc], st.name).type
        x == Expn_chck(st.expn, prgm, K1.S, sc)
    IN  IF IsError(x.err) THEN StmtThrow(x.err, WithTys(K1, x.tys))
        ELSE IF ~TypeEq(name_ty, x.type)
        THEN StmtThrow(DwislpyError(TypeMismatchMsg(name_ty)), WithTys(K1, x.tys))
        ELSE StmtOk(Void, WithTys(K1, x.tys))

Prms_chck_body(prms, i, prgm, K, sc) ==
    IF i > Len(prms) THEN StmtOk(Void, K)
    ELSE
        LET x == Expn_chck(prms[i], prgm, K.S, sc) IN
        IF IsError(x.err) THEN StmtThrow(x.err, WithTys(K, x.tys))
        ELSE Prms_chck(prms, i + 1, prgm,
                       KLog(WithTys(K, x.tys),
                            [ev |-> "prnt", expn |-> prms[i], type |-> x.type,
                             field |-> expn_type(prms[i])]),
                       sc)

Retn_chck(expd, K) ==
    LET r == Retn_rtns(expd) IN
    IF IsError(r.err) THEN StmtThrow(r.err, K)
    ELSE StmtOk(r.rtns, KLog(K, [ev |-> "ret", node |-> "Retn", expd |-> expd,
                                 expn_ty |-> NoneTy, rtns |-> r.rtns]))

RetE_chck_body(st, expd, prgm, K, sc) ==
    LET x == Expn_chck(st.expn, prgm, K.S, sc) IN
    IF IsError(x.err) THEN StmtThrow(x.err, WithTys(K, x.tys))
    ELSE
        LET r == RetE_rtns(x.type, expd) IN
        IF IsError(r.err) THEN StmtThrow(r.err, WithTys(K, x.tys))
        ELSE StmtOk(r.rtns, KLog(WithTys(K, x.tys),
                                 [ev |-> "ret", node |-> "RetE", expd |-> expd,
                                  expn_ty |-> x.type, rtns |-> r.rtns]))

Proc_chck_body(st, prgm, K, sc) ==
    IF defs_count(prgm, st.name) = 0
    THEN StmtThrow(DwislpyError("Type error: procedure '" \o st.name \o "' is not defined."), K)
    ELSE
        LET def == defs_at(prgm, st.name) IN
        IF ~TypeEq(def.rety, NoneTy)
        THEN StmtThrow(DwislpyError("Error: Function called as procedure."), K)
        ELSE IF get_frmls_size(K.S[def.name]) # Len(st.args)
        THEN StmtThrow(DwislpyError(ArgCountMsg(st.name, get_frmls_size(K.S[def.name]),
                                                Len(st.args))), K)
        ELSE
            LET as == Args_chck(st.args, 1, def, prgm, K.S, sc, <<>>) IN
            IF IsError(as.err) THEN StmtThrow(as.err, WithTys(K, as.tys))
            ELSE StmtOk(Void, WithTys(K, as.tys))


\* Blck::chck: the loop over stmts from index i on, with retn so far.
Blck_loop_body(stmts, i, retn, expd, prgm, K, sc) ==
    IF i > Len(stmts) THEN StmtOk(retn, [K EXCEPT !.brs = Append(K.brs, retn)])
    ELSE
        LET r == Stmt_chck(stmts[i], expd, prgm, K, sc) IN
        IF IsError(r.err) THEN r
        ELSE Blck_loop(stmts, i + 1, Blck_seq(retn, r.rtns), expd, prgm,
                       KLog(r.K, [ev |-> "step", i |-> i, retn |-> retn, stmt_rtns |-> r.rtns,
                                  next |-> Blck_seq(retn, r.rtns)]),
                       sc)

Blck_chck_body(stmts, expd, prgm, K, sc) == Blck_loop(stmts, 1, Void, expd, prgm, K, sc)

Tern_chck_body(st, expd, prgm, K, sc) ==
    LET x == Expn_chck(st.expn, prgm, K.S, sc) IN
    IF IsError(x.err) THEN StmtThrow(x.err, WithTys(K, x.tys))
    ELSE
        LET if_rt == Blck_chck(st.if_blck, expd, prgm, WithTys(K, x.tys), sc) IN
        IF IsError(if_rt.err) THEN if_rt
        ELSE
            LET else_rt == Blck_chck(st.else_blck, expd, prgm, if_rt.K, sc) IN
            IF IsError(else_rt.err) THEN else_rt
            ELSE
                LET p == plus(if_rt.rtns, else_rt.rtns) IN
                IF IsError(p.err) THEN StmtThrow(p.err, else_rt.K)
                ELSE StmtOk(p.rtns, else_rt.K)

Whle_chck_body(st, expd, prgm, K, sc) ==
    LET x == Expn_chck(st.expn, prgm, K.S, sc) IN
    IF IsError(x.err) THEN StmtThrow(x.err, WithTys(K, x.tys))
    ELSE
        LET blck_rt == Blck_chck(st.blck, expd, prgm, WithTys(K, x.tys), sc) IN
        IF IsError(blck_rt.err) THEN blck_rt
        ELSE
            LET p == plus(blck_rt.rtns, Void) IN
            IF IsError(p.err) THEN StmtThrow(p.err, blck_rt.K)
            ELSE StmtOk(p.rtns, blck_rt.K)

Stmt_chck_body(st, expd, prgm, K, sc) ==
    CASE st.node \in {"Asgn", "PlEq", "MiEq"} -> Asgn_chck(st, prgm, K, sc)
      [] st.node = "Ntro" -> Ntro_chck(st, prgm, K, sc)
      [] st.node = "Pass" -> StmtOk(Void, K)
      [] st.node = "Prnt" -> Prms_chck(st.prms, 1, prgm, K, sc)
      [] st.node = "Retn" -> Retn_chck(expd, K)
      [] st.node = "RetE" -> RetE_chck(st, expd, prgm, K, sc)
      [] st.node = "Proc" -> Proc_chck(st, prgm, K, sc)
      [] st.node = "Tern" -> Tern_chck(st, expd, prgm, K, sc)
      [] OTHER -> Whle_chck(st, expd, prgm, K, sc)

(***************************************************************************)
(* Defn::chck and Prgm::chck.  A check's record C = [err, K, rtns] holds    *)
(* the error thrown, what was written, and the Rtns that Blck::chck         *)
(* returned for each scope whose body was checked.                          *)
(***************************************************************************)
Defn_chck_body(def, prgm, K) ==
    LET r == Blck_chck(def.blck, RType(def.rety), prgm, K, def.name) IN
    IF IsError(r.err) THEN r
    ELSE IF holds_Void(r.rtns)
    THEN [r EXCEPT !.err = DwislpyError("Definition body never returns.")]
    ELSE IF holds_VoidOr(r.rtns)
    THEN [r EXCEPT !.err = DwislpyError("Definition body might not return.")]
    ELSE r

\* The loop of Prgm::chck over defs, from index i on.
Defs_chck_body(prgm, i, K, rtns) ==
    IF i > Len(prgm.defs) THEN [err |-> NoError, K |-> K, rtns |-> rtns]
    ELSE
        LET def == prgm.defs[i]
            r == Defn_chck(def, prgm, K)
        IN  IF IsError(r.err) THEN [err |-> r.err, K |-> r.K, rtns |-> rtns]
            ELSE Defs_chck(prgm, i + 1, r.K, Put(rtns, def.name, r.rtns))

\* The main script is checked expecting Void; the DwislpyError built when it
\* returns something else is constructed and dropped, never thrown.
Prgm_chck_body(prgm, S) ==
    LET d == Defs_chck(prgm, 1, [S |-> S, tys |-> <<>>, brs |-> <<>>, log |-> <<>>], <<>>) IN
    IF IsError(d.err) THEN d
    ELSE
        LET m == Blck_chck(prgm.main, Void, prgm, d.K, MainScope) IN
        IF IsError(m.err) THEN [err |-> m.err, K |-> m.K, rtns |-> d.rtns]
        ELSE [err |-> NoError, K |-> m.K, rtns |-> Put(d.rtns, MainScope, m.rtns)]

Chck(fn, a) ==
    CASE fn = "Expn_chck" -> Expn_chck_body(a[1], a[2], a[3], a[4])
      [] fn = "Args_chck" -> Args_chck_body(a[1], a[2], a[3], a[4], a[5], a[6], a[7])
      [] fn = "Func_chck" -> Func_chck_body(a[1], a[2], a[3], a[4])
      [] fn = "Asgn_chck" -> Asgn_chck_body(a[1], a[2], a[3], a[4])
      [] fn = "Ntro_chck" -> Ntro_chck_body(a[1], a[2], a[3], a[4])
      [] fn = "Prms_chck" -> Prms_chck_body(a[1], a[2], a[3], a[4], a[5])
      [] fn = "RetE_chck" -> RetE_chck_body(a[1], a[2], a[3], a[4], a[5])
      [] fn = "Proc_chck" -> Proc_chck_body(a[1], a[2], a[3], a[4])
      [] fn = "Blck_loop" -> Blck_loop_body(a[1], a[2], a[3], a[4], a[5], a[6], a[7])
      [] fn = "Blck_chck" -> Blck_chck_body(a[1], a[2], a[3], a[4], a[5])
      [] fn = "Tern_chck" -> Tern_chck_body(a[1], a[2], a[3], a[4], a[5])
      [] fn = "Whle_chck" -> Whle_chck_body(a[1], a[2], a[3], a[4], a[5])
      [] fn = "Stmt_chck" -> Stmt_chck_body(a[1], a[2], a[3], a[4], a[5])
      [] fn = "Defn_chck" -> Defn_chck_body(a[1], a[2], a[3])
      [] fn = "Defs_chck" -> Defs_chck_body(a[1], a[2], a[3], a[4])
      [] OTHER -> Prgm_chck_body(a[1], a[2])

(***************************************************************************)
(* The interpreter  (dwislpy-ast.cc).                                       *)
(***************************************************************************)
predicate(e) ==
    IF e.k = "int" THEN e.i # 0
    ELSE IF e.k = "bool" THEN e.i = 1
    ELSE IF e.k = "str" THEN e.s # ""
    ELSE FALSE

to_string(v) ==
    IF v.k = "int" THEN IntToStr(v.i)
    ELSE IF v.k = "str" THEN v.s
    ELSE IF v.k = "bool" THEN (IF v.i = 1 THEN "True" ELSE "False")
    ELSE "None"

\* C++ integer division truncates toward zero; % takes the dividend's sign.
Abs(n) == IF n < 0 THEN 0 - n ELSE n
CDiv(a, b) == IF (a < 0) = (b < 0) THEN Abs(a) \div Abs(b) ELSE 0 - (Abs(a) \div Abs(b))
CMod(a, b) == a - b * CDiv(a, b)

\* The decimal strings std::stoi converts, over the range of ints the model
\* reads from standard input.
MaxStoi == 9
StoiRange == (0 - MaxStoi)..MaxStoi
stoi_converts(s) == \E n \in StoiRange : IntToStr(n) = s
stoi(s) == CHOOSE n \in StoiRange : IntToStr(n) = s

\* W = [out, inp, fell, fuel, depth, log]: standard output so far, the tokens
\* left on standard input, whether some call's body finished without a value,
\* the loop iterations and calls the run may still start, the number of calls
\* being executed, and the history of the run: what was evaluated and
\* executed, in order, with the values and the Ctxt involved.
Log(W, event) == [W EXCEPT !.log = Append(W.log, event)]
EvalOk(v, W) == [err |-> NoError, v |-> v, W |-> W]
EvalThrow(e, W) == [err |-> e, v |-> DefaultValu, W |-> W]
OutOfFuel == [kind |-> "fuel", msg |-> "still running"]

nullopt == [has |-> FALSE, v |-> DefaultValu]
Some(v) == [has |-> TRUE, v |-> v]
ExecOk(rv, ctxt, W) == [err |-> NoError, rv |-> rv, ctxt |-> ctxt, W |-> W]
ExecThrow(e, ctxt, W) == [err |-> e, rv |-> nullopt, ctxt |-> ctxt, W |-> W]

BinaryValu(node, lv, rv) ==
    LET ints == lv.k = "int" /\ rv.k = "int"
        strs == lv.k = "str" /\ rv.k = "str"
        ok(v) == [err |-> NoError, v |-> v]
        bad(ms) == [err |-> DwislpyError(ms), v |-> DefaultValu]
    IN
    CASE node = "Plus" ->
            IF ints THEN ok(IntV(lv.i + rv.i))
            ELSE IF strs THEN ok(StrV(lv.s \o rv.s))
            ELSE bad("Run-time error: wrong operand type for plus.")
      [] node = "Mnus" ->
            IF ints THEN ok(IntV(lv.i - rv.i))
            ELSE bad("Run-time error: wrong operand type for minus.")
      [] node = "Tmes" ->
            IF ints THEN ok(IntV(lv.i * rv.i))
            ELSE bad("Run-time error: wrong operand type for times.")
      [] node = "IDiv" ->
            IF ints THEN
                IF rv.i = 0 THEN bad("Run-time error: division by 0.")
                ELSE ok(IntV(CDiv(lv.i, rv.i)))
            ELSE bad("Run-time error: wrong operand type for quotient.")
      [] node = "IMod" ->
            IF ints THEN
                IF rv.i = 0 THEN bad("Run-time error: division by 0.")
                ELSE ok(IntV(CMod(lv.i, rv.i)))
            ELSE bad("Run-time error: wrong operand type for remainder.")
      [] node = "Less" ->
            IF ints THEN ok(BoolV(lv.i < rv.i))
            ELSE bad("Run-time error: wrong operand type for less than.")
      [] node = "LtEq" ->
            IF ints THEN ok(BoolV(lv.i <= rv.i))
            ELSE bad("Run-time error: wrong operand type for less than or equal to.")
      [] node = "Eqal" ->
            IF ints THEN ok(BoolV(lv.i = rv.i))
            ELSE IF strs THEN ok(BoolV(lv.s = rv.s))
            ELSE ok(BoolV(FALSE))
      [] node = "Conj" -> ok(BoolV(predicate(lv) /\ predicate(rv)))
      [] OTHER -> ok(BoolV(predicate(lv) \/ predicate(rv)))

IntC_valu(v) ==
    IF v.k = "int" THEN [err |-> NoError, v |-> v]
    ELSE IF v.k = "str" THEN
        IF stoi_converts(v.s) THEN [err |-> NoError, v |-> IntV(stoi(v.s))]
        ELSE [err |-> DwislpyError("Run-time error: cannot be converted to an int."),
              v |-> DefaultValu]
    ELSE IF v.k = "bool" THEN [err |-> NoError, v |-> IntV(IF v.i = 1 THEN 1 ELSE 0)]
    ELSE [err |-> DwislpyError("Run-time error: cannot convert to an int."), v |-> DefaultValu]

\* std::cin >> vl: the next token, or the empty string at end of input.
Inpt_read(prompt, W) ==
    IF Len(W.inp) = 0
    THEN EvalOk(StrV(""), [W EXCEPT !.out = W.out \o prompt])
    ELSE EvalOk(StrV(Head(W.inp)), [W EXCEPT !.out = W.out \o prompt, !.inp = Tail(W.inp)])


\* Stmt::exec, Expn::eval: one entry for every call of the interpreter.
RECURSIVE Exec(_, _)
Args_eval(def, args, i, prgm, ctxt, fctxt, W) == Exec("Args_eval", <<def, args, i, prgm, ctxt, fctxt, W>>)
Call(name, args, prgm, ctxt, W) == Exec("Call", <<name, args, prgm, ctxt, W>>)
Func_eval(e, prgm, ctxt, W) == Exec("Func_eval", <<e, prgm, ctxt, W>>)
Expn_eval(e, prgm, ctxt, W) == Exec("Expn_eval", <<e, prgm, ctxt, W>>)
Binary_eval(e, prgm, ctxt, W) == Exec("Binary_eval", <<e, prgm, ctxt, W>>)
Blck_exec(stmts, i, prgm, ctxt, W) == Exec("Blck_exec", <<stmts, i, prgm, ctxt, W>>)
Asgn_exec(st, prgm, ctxt, W) == Exec("Asgn_exec", <<st, prgm, ctxt, W>>)
Ntro_exec(st, prgm, ctxt, W) == Exec("Ntro_exec", <<st, prgm, ctxt, W>>)
Updt_exec(st, prgm, ctxt, W) == Exec("Updt_exec", <<st, prgm, ctxt, W>>)
Prms_exec(prms, i, prgm, ctxt, W) == Exec("Prms_exec", <<prms, i, prgm, ctxt, W>>)
Prnt_exec(st, prgm, ctxt, W) == Exec("Prnt_exec", <<st, prgm, ctxt, W>>)
Proc_exec(st, prgm, ctxt, W) == Exec("Proc_exec", <<st, prgm, ctxt, W>>)
Whle_exec(st, prgm, ctxt, W) == Exec("Whle_exec", <<st, prgm, ctxt, W>>)
Tern_exec(st, prgm, ctxt, W) == Exec("Tern_exec", <<st, prgm, ctxt, W>>)
RetE_exec(st, prgm, ctxt, W) == Exec("RetE_exec", <<st, prgm, ctxt, W>>)
Stmt_exec(st, prgm, ctxt, W) == Exec("Stmt_exec", <<st, prgm, ctxt, W>>)
Prgm_run(prgm, W) == Exec("Prgm_run", <<prgm, W>>)

\* fctxt[def->args[i]] = args[i]->eval(defs,ctxt), from index i on.
Args_eval_body(def, args, i, prgm, ctxt, fctxt, W) ==
    IF i > Len(args) THEN [err |-> NoError, fctxt |-> fctxt, W |-> W]
    ELSE
        LET a == Expn_eval(args[i], prgm, ctxt, W) IN
        IF IsError(a.err) THEN [err |-> a.err, fctxt |-> fctxt, W |-> a.W]
        ELSE Args_eval(def, args, i + 1, prgm, ctxt, Put(fctxt, def.frmls[i].name, a.v), a.W)

FrmlNames(def) == [i \in 1..Len(def.frmls) |-> def.frmls[i].name]

\* A call whose body runs in the caller's Ctxt with the formals added to it,
\* not in a Ctxt of its own.
Call_in_callers_ctxt(name, args, prgm, ctxt, W) ==
    IF defs_count(prgm, name) = 0
    THEN [err |-> DwislpyError("No function with name " \o name \o " found."),
          rv |-> nullopt, W |-> W]
    ELSE
        LET def == defs_at(prgm, name)
            as == Args_eval(def, args, 1, prgm, ctxt, ctxt, W)
            d == as.W.depth + 1
            b == Blck_exec(def.blck, 1, prgm, as.fctxt,
                           Log([as.W EXCEPT !.fuel = as.W.fuel - 1, !.depth = d],
                               [ev |-> "call", d |-> d, name |-> name, args |-> args,
                                frmls |-> FrmlNames(def), ctxt |-> ctxt, fctxt |-> as.fctxt]))
        IN  IF Len(def.frmls) # Len(args)
            THEN [err |-> DwislpyError(ArgCountMsg(name, Len(def.frmls), Len(args))),
                  rv |-> nullopt, W |-> W]
            ELSE IF IsError(as.err) THEN [err |-> as.err, rv |-> nullopt, W |-> as.W]
            ELSE IF as.W.fuel = 0 THEN [err |-> OutOfFuel, rv |-> nullopt, W |-> as.W]
            ELSE IF IsError(b.err) THEN [err |-> b.err, rv |-> b.rv, W |-> b.W]
            ELSE [err |-> b.err, rv |-> b.rv,
                  W |-> Log([b.W EXCEPT !.fell = b.W.fell \/ ~b.rv.has, !.depth = d - 1],
                            [ev |-> "back", d |-> d, has |-> b.rv.has, v |-> b.rv.v])]

\* The part SCal::exec and ECal::eval share: find the definition, compare the
\* argument counts, bind the formals in a fresh Ctxt, execute the body.
\* The result is [err, rv, W] with rv what the body's exec returned.
Call_body(name, args, prgm, ctxt, W) ==
    IF defs_count(prgm, name) = 0
    THEN [err |-> DwislpyError("No function with name " \o name \o " found."),
          rv |-> nullopt, W |-> W]
    ELSE
        LET def == defs_at(prgm, name) IN
        IF Len(def.frmls) # Len(args)
        THEN [err |-> DwislpyError(ArgCountMsg(name, Len(def.frmls), Len(args))),
              rv |-> nullopt, W |-> W]
        ELSE
            LET as == Args_eval(def, args, 1, prgm, ctxt, <<>>, W) IN
            IF IsError(as.err) THEN [err |-> as.err, rv |-> nullopt, W |-> as.W]
            ELSE IF as.W.fuel = 0 THEN [err |-> OutOfFuel, rv |-> nullopt, W |-> as.W]
            ELSE
                LET d == as.W.depth + 1
                    b == Blck_exec(def.blck, 1, prgm, as.fctxt,
                                   Log([as.W EXCEPT !.fuel = as.W.fuel - 1, !.depth = d],
                                       [ev |-> "call", d |-> d, name |-> name, args |-> args,
                                        frmls |-> FrmlNames(def), ctxt |-> ctxt,
                                        fctxt |-> as.fctxt]))
                IN  IF IsError(b.err) THEN [err |-> b.err, rv |-> b.rv, W |-> b.W]
                    ELSE [err |-> b.err, rv |-> b.rv,
                          W |-> Log([b.W EXCEPT !.fell = b.W.fell \/ ~b.rv.has,
                                                !.depth = d - 1],
                                    [ev |-> "back", d |-> d, has |-> b.rv.has, v |-> b.rv.v])]

\* ECal::eval: the body's value, or Valu { } when the body returned nothing.
Func_eval_body(e, prgm, ctxt, W) ==
    LET c == Call(e.name, e.args, prgm, ctxt, W) IN
    IF IsError(c.err) THEN EvalThrow(c.err, c.W)
    ELSE IF c.rv.has THEN EvalOk(c.rv.v, Log(c.W, [ev |-> "value", v |-> c.rv.v]))
    ELSE EvalOk(DefaultValu, Log(c.W, [ev |-> "value", v |-> DefaultValu]))

Lkup_eval(e, ctxt, W) ==
    IF e.name \in DOMAIN ctxt THEN EvalOk(ctxt[e.name], W)
    ELSE EvalThrow(DwislpyError("Run-time error: variable '" \o e.name \o "'not defined."), W)

UnaryValu(node, v, W) ==
    IF node = "Negt" THEN EvalOk(BoolV(~predicate(v)), W)
    ELSE IF node = "Inpt" THEN
        IF v.k = "str" THEN Inpt_read(v.s, W)
        ELSE EvalThrow(DwislpyError("Run-time error: prompt is not a string."), W)
    ELSE IF node = "IntC" THEN
        LET c == IntC_valu(v) IN
        IF IsError(c.err) THEN EvalThrow(c.err, W) ELSE EvalOk(c.v, W)
    ELSE EvalOk(StrV(to_string(v)), W)

\* A binary operator once its left operand has the value lv.v: rght is
\* evaluated, then the operator is applied.
Binary_rest(e, prgm, ctxt, lv) ==
    LET rv == Expn_eval(e.rght, prgm, ctxt, Log(lv.W, [ev |-> "left", e |-> e, v |-> lv.v])) IN
    IF IsError(rv.err) THEN rv
    ELSE
        LET W2 == Log(rv.W, [ev |-> "rght", e |-> e, v |-> rv.v])
            b == BinaryValu(e.node, lv.v, rv.v)
        IN  IF IsError(b.err) THEN EvalThrow(b.err, W2)
            ELSE EvalOk(b.v, Log(W2, [ev |-> "binop", node |-> e.node, lv |-> lv.v,
                                      rv |-> rv.v, v |-> b.v]))

\* Conj and Disj that stop at the left operand when it decides the result.
Binary_eval_short_circuit(e, prgm, ctxt, W) ==
    LET lv == Expn_eval(e.left, prgm, ctxt, W) IN
    IF IsError(lv.err) THEN lv
    ELSE IF e.node = "Conj" /\ ~predicate(lv.v)
    THEN EvalOk(BoolV(FALSE), Log(lv.W, [ev |-> "left", e |-> e, v |-> lv.v]))
    ELSE IF e.node = "Disj" /\ predicate(lv.v)
    THEN EvalOk(BoolV(TRUE), Log(lv.W, [ev |-> "left", e |-> e, v |-> lv.v]))
    ELSE Binary_rest(e, prgm, ctxt, lv)

\* Valu lv = left->eval(defs,ctxt); Valu rv = rght->eval(defs,ctxt); ...
Binary_eval_body(e, prgm, ctxt, W) ==
    LET lv == Expn_eval(e.left, prgm, ctxt, W) IN
    IF IsError(lv.err) THEN lv ELSE Binary_rest(e, prgm, ctxt, lv)

Expn_eval_body(e, prgm, ctxt, W) ==
    LET W0 == Log(W, [ev |-> "eval", e |-> e]) IN
    CASE e.node = "Ltrl" -> EvalOk(e.valu, W0)
      [] e.node = "Lkup" -> Lkup_eval(e, ctxt, W0)
      [] e.node = "Func" -> Func_eval(e, prgm, ctxt, W0)
      [] e.node \in {"Negt", "Inpt", "IntC", "StrC"} ->
            LET x == Expn_eval(e.expn, prgm, ctxt, W0) IN
            IF IsError(x.err) THEN x ELSE UnaryValu(e.node, x.v, x.W)
      [] OTHER -> Binary_eval(e, prgm, ctxt, W0)

\* Blck::exec: the loop over stmts from index i on.
Blck_exec_body(stmts, i, prgm, ctxt, W) ==
    IF i > Len(stmts) THEN ExecOk(nullopt, ctxt, Log(W, [ev |-> "end", d |-> W.depth]))
    ELSE
        LET r == Stmt_exec(stmts[i], prgm, ctxt,
                           Log(W, [ev |-> "stmt", d |-> W.depth, i |-> i]))
            done == [ev |-> "done", d |-> W.depth, st |-> stmts[i], i |-> i,
                     len |-> Len(stmts), before |-> ctxt, after |-> r.ctxt,
                     has |-> r.rv.has, v |-> r.rv.v]
        IN  IF IsError(r.err) THEN r
            ELSE IF r.rv.has THEN [r EXCEPT !.W = Log(r.W, done)]
            ELSE Blck_exec(stmts, i + 1, prgm, r.ctxt, Log(r.W, done))

\* ctxt[name] = expn->eval(defs,ctxt)
Asgn_exec_body(st, prgm, ctxt, W) ==
    LET x == Expn_eval(st.expn, prgm, ctxt, W) IN
    IF IsError(x.err) THEN ExecThrow(x.err, ctxt, x.W)
    ELSE ExecOk(nullopt, Put(ctxt, st.name, x.v), x.W)

\* An introduction binds the name to the value of its initializer.
Ntro_exec_body(st, prgm, ctxt, W) == Asgn_exec(st, prgm, ctxt, W)

\* PlEq::exec and MiEq::exec.
Updt_exec_body(st, prgm, ctxt, W) ==
    IF st.name \notin DOMAIN ctxt
    THEN ExecThrow(DwislpyError("Run-time error: variable '" \o st.name \o "'not defined."),
                   ctxt, W)
    ELSE
        LET n == ctxt[st.name]
            x == Expn_eval(st.expn, prgm, ctxt, W)
        IN  IF IsError(x.err) THEN ExecThrow(x.err, ctxt, x.W)
            ELSE IF x.v.k = "int" /\ n.k = "int" THEN
                ExecOk(nullopt,
                       Put(ctxt, st.name,
                           IntV(IF st.node = "PlEq" THEN n.i + x.v.i ELSE n.i - x.v.i)),
                       x.W)
            ELSE IF st.node = "PlEq" /\ x.v.k = "str" /\ n.k = "str" THEN
                ExecOk(nullopt, Put(ctxt, st.name, StrV(n.s \o x.v.s)), x.W)
            ELSE IF st.node = "PlEq" THEN
                ExecThrow(DwislpyError("Run-time error: wrong operand type for plus equals."),
                          ctxt, x.W)
            ELSE
                ExecThrow(DwislpyError("Run-time error: wrong operand type for minus equals."),
                          ctxt, x.W)

\* The loop of Prnt::exec over prms: each value on a line of its own.
Prms_exec_body(prms, i, prgm, ctxt, W) ==
    IF i > Len(prms) THEN ExecOk(nullopt, ctxt, W)
    ELSE
        LET x == Expn_eval(prms[i], prgm, ctxt, W) IN
        IF IsError(x.err) THEN ExecThrow(x.err, ctxt, x.W)
        ELSE Prms_exec(prms, i + 1, prgm, ctxt,
                       [x.W EXCEPT !.out = x.W.out \o to_string(x.v) \o "\n"])

Prnt_exec_body(st, prgm, ctxt, W) ==
    IF Len(st.prms) = 0 THEN ExecOk(nullopt, ctxt, [W EXCEPT !.out = W.out \o "\n"])
    ELSE Prms_exec(st.prms, 1, prgm, ctxt, W)

\* SCal::exec: what the body's exec returned is returned to the caller's block.
Proc_exec_body(st, prgm, ctxt, W) ==
    LET c == Call(st.name, st.args, prgm, ctxt, W) IN
    IF IsError(c.err) THEN ExecThrow(c.err, ctxt, c.W)
    ELSE IF c.rv.has THEN ExecOk(c.rv, ctxt, c.W)
    ELSE ExecOk(nullopt, ctxt, c.W)

Whle_exec_body(st, prgm, ctxt, W) ==
    LET x == Expn_eval(st.expn, prgm, ctxt, W) IN
    IF IsError(x.err) THEN ExecThrow(x.err, ctxt, x.W)
    ELSE IF ~predicate(x.v) THEN ExecOk(nullopt, ctxt, x.W)
    ELSE IF x.W.fuel = 0 THEN ExecThrow(OutOfFuel, ctxt, x.W)
    ELSE
        LET r == Blck_exec(st.blck, 1, prgm, ctxt, [x.W EXCEPT !.fuel = x.W.fuel - 1]) IN
        IF IsError(r.err) THEN r
        ELSE IF r.rv.has THEN r
        ELSE Whle_exec(st, prgm, r.ctxt, r.W)

Tern_exec_body(st, prgm, ctxt, W) ==
    LET x == Expn_eval(st.expn, prgm, ctxt, W) IN
    IF IsError(x.err) THEN ExecThrow(x.err, ctxt, x.W)
    ELSE IF predicate(x.v) THEN Blck_exec(st.if_blck, 1, prgm, ctxt, x.W)
    ELSE Blck_exec(st.else_blck, 1, prgm, ctxt, x.W)

RetE_exec_body(st, prgm, ctxt, W) ==
    LET x == Expn_eval(st.expn, prgm, ctxt, W) IN
    IF IsError(x.err) THEN ExecThrow(x.err, ctxt, x.W)
    ELSE ExecOk(Some(x.v), ctxt, x.W)

Stmt_exec_body(st, prgm, ctxt, W) ==
    CASE st.node = "Asgn" -> Asgn_exec(st, prgm, ctxt, W)
      [] st.node = "Ntro" -> Ntro_exec(st, prgm, ctxt, W)
      [] st.node \in {"PlEq", "MiEq"} -> Updt_exec(st, prgm, ctxt, W)
      [] st.node = "Pass" -> ExecOk(nullopt, ctxt, W)
      [] st.node = "Prnt" -> Prnt_exec(st, prgm, ctxt, W)
      [] st.node = "Proc" -> Proc_exec(st, prgm, ctxt, W)
      [] st.node = "Whle" -> Whle_exec(st, prgm, ctxt, W)
      [] st.node = "Tern" -> Tern_exec(st, prgm, ctxt, W)
      [] st.node = "Retn" -> ExecOk(Some(DefaultValu), ctxt, W)
      [] OTHER -> RetE_exec(st, prgm, ctxt, W)

\* Prgm::run: the main script in an empty Ctxt.
Prgm_run_body(prgm, W) == Blck_exec(prgm.main, 1, prgm, <<>>, W)

Exec(fn, a) ==
    CASE fn = "Args_eval" -> Args_eval_body(a[1], a[2], a[3], a[4], a[5], a[6], a[7])
      [] fn = "Call" -> Call_body(a[1], a[2], a[3], a[4], a[5])
      [] fn = "Func_eval" -> Func_eval_body(a[1], a[2], a[3], a[4])
      [] fn = "Expn_eval" -> Expn_eval_body(a[1], a[2], a[3], a[4])
      [] fn = "Binary_eval" -> Binary_eval_body(a[1], a[2], a[3], a[4])
      [] fn = "Blck_exec" -> Blck_exec_body(a[1], a[2], a[3], a[4], a[5])
      [] fn = "Asgn_exec" -> Asgn_exec_body(a[1], a[2], a[3], a[4])
      [] fn = "Ntro_exec" -> Ntro_exec_body(a[1], a[2], a[3], a[4])
      [] fn = "Updt_exec" -> Updt_exec_body(a[1], a[2], a[3], a[4])
      [] fn = "Prms_exec" -> Prms_exec_body(a[1], a[2], a[3], a[4], a[5])
      [] fn = "Prnt_exec" -> Prnt_exec_body(a[1], a[2], a[3], a[4])
      [] fn = "Proc_exec" -> Proc_exec_body(a[1], a[2], a[3], a[4])
      [] fn = "Whle_exec" -> Whle_exec_body(a[1], a[2], a[3], a[4])
      [] fn = "Tern_exec" -> Tern_exec_body(a[1], a[2], a[3], a[4])
      [] fn = "RetE_exec" -> RetE_exec_body(a[1], a[2], a[3], a[4])
      [] fn = "Stmt_exec" -> Stmt_exec_body(a[1], a[2], a[3], a[4])
      [] OTHER -> Prgm_run_body(a[1], a[2])

(***************************************************************************)
(* The IR  (dwislpy-inst.hh) and the AST->IR translation (dwislpy-inst.cc). *)
(***************************************************************************)
SET(d, v) == [op |-> "SET", dst |-> d, val |-> v]
STL(d, l) == [op |-> "STL", dst |-> d, lbl |-> l]
MOV(d, s1) == [op |-> "MOV", dst |-> d, src |-> s1]
ALU(o, d, s1, s2) == [op |-> o, dst |-> d, src1 |-> s1, src2 |-> s2]
NOP == [op |-> "NOP"]
LBL(l) == [op |-> "LBL", lbl |-> l]
BCN(cn, s1, s2, lt, lf) ==
    [op |-> "BCN", cndn |-> cn, src1 |-> s1, src2 |-> s2, lblt |-> lt, lblf |-> lf]
BCZ(cn, s1, lt, lf) == [op |-> "BCZ", cndn |-> cn, src |-> s1, lblt |-> lt, lblf |-> lf]
JMP(l) == [op |-> "JMP", lbl |-> l]
ENTER == [op |-> "ENTER"]
LEAVE == [op |-> "LEAVE"]
RTN(s1) == [op |-> "RTN", src |-> s1]
ARG(i, s1) == [op |-> "ARG", idx |-> i, src |-> s1]
RTV(d) == [op |-> "RTV", dst |-> d]
CLL(l) == [op |-> "CLL", lbl |-> l]
GTI(d) == [op |-> "GTI", dst |-> d]
PTI(s1) == [op |-> "PTI", src |-> s1]
PTS(s1) == [op |-> "PTS", src |-> s1]

\* The anonymous add_temp of a scope's SymT: [symt, nm].
add_temp(symt, ty) ==
    LET id == symt.sym_id
        nm == "temp_" \o IntToStr(id)
    IN  [symt |-> [symt EXCEPT !.sym_table = Put(symt.sym_table, nm, SymInfo(nm, ty, id, TEMP)),
                               !.locals = Append(symt.locals, nm),
                               !.sym_id = id + 1],
         nm |-> nm]

\* The global SymT: its label counter and its strings, in insertion order.
NewGlbl == [sym_id |-> 0, strings |-> <<>>]
\* add_labl(nm) on any SymT ends at the global table, which returns nm.
add_labl_named(G, nm) == nm
\* add_labl(): [G, lbl]
add_labl(G) ==
    [G |-> [G EXCEPT !.sym_id = G.sym_id + 1], lbl |-> add_labl_named(G, "L_" \o IntToStr(G.sym_id))]
\* add_strg(strg): [G, lbl]
add_strg(G, strg) ==
    LET l == add_labl(G) IN
    [G |-> [l.G EXCEPT !.strings = Append(l.G.strings, [lbl |-> l.lbl, strg |-> strg])],
     lbl |-> l.lbl]

\* The labels Prgm::trans gives the five global strings, first of all.
EOLN_STRG_LBL == "L_0"
TRUE_STRG_LBL == "L_1"
FLSE_STRG_LBL == "L_2"
NONE_STRG_LBL == "L_3"
INPT_BUFF_LBL == "L_4"
INPT_BUFF_STRG == "12345678901234567890123456789012345678901234567890123456789012345678901234567890"

\* T = [S, G, code, err]: the symbol tables, the global table, the code of
\* the scope being translated and the exception thrown, if any.
Emit_body(T, inst) == [T EXCEPT !.code = Append(T.code, inst)]
Temp_body(T, sc, ty) ==
    LET a == add_temp(T.S[sc], ty) IN [T |-> [T EXCEPT !.S[sc] = a.symt], nm |-> a.nm]
Labl_body(T) ==
    LET l == add_labl(T.G) IN [T |-> [T EXCEPT !.G = l.G], lbl |-> l.lbl]
Strg_body(T, strg) ==
    LET l == add_strg(T.G, strg) IN [T |-> [T EXCEPT !.G = l.G], lbl |-> l.lbl]

AluOp(node) ==
    CASE node = "Plus" -> "ADD" [] node = "Mnus" -> "SUB" [] node = "Tmes" -> "MLT"
      [] node = "IDiv" -> "DIV" [] OTHER -> "MOD"
CndnOp(node) == CASE node = "Less" -> "lt" [] node = "Eqal" -> "eq" [] OTHER -> "le"

RECURSIVE Args_emit(_, _)

\* Stmt::trans, Expn::trans, Expn::trans_cndn: one entry for every call of the translation.
RECURSIVE Trans(_, _)
Emit(T, inst) == Trans("Emit", <<T, inst>>)
Temp(T, sc, ty) == Trans("Temp", <<T, sc, ty>>)
Labl(T) == Trans("Labl", <<T>>)
Strg(T, strg) == Trans("Strg", <<T, strg>>)
Arith_trans(e, dest, T, sc) == Trans("Arith_trans", <<e, dest, T, sc>>)
Cmp_trans_cndn(e, then_lbl, else_lbl, T, sc) == Trans("Cmp_trans_cndn", <<e, then_lbl, else_lbl, T, sc>>)
Bool_trans(e, dest, T, sc) == Trans("Bool_trans", <<e, dest, T, sc>>)
Args_trans(args, i, srcs, T, sc) == Trans("Args_trans", <<args, i, srcs, T, sc>>)
Call_trans(name, args, T, sc) == Trans("Call_trans", <<name, args, T, sc>>)
Func_trans(e, dest, T, sc) == Trans("Func_trans", <<e, dest, T, sc>>)
Inpt_trans(e, dest, T, sc) == Trans("Inpt_trans", <<e, dest, T, sc>>)
Expn_trans(e, dest, T, sc) == Trans("Expn_trans", <<e, dest, T, sc>>)
Conj_trans_cndn(e, then_lbl, else_lbl, T, sc) == Trans("Conj_trans_cndn", <<e, then_lbl, else_lbl, T, sc>>)
Disj_trans_cndn(e, then_lbl, else_lbl, T, sc) == Trans("Disj_trans_cndn", <<e, then_lbl, else_lbl, T, sc>>)
Func_trans_cndn(e, then_lbl, else_lbl, T, sc) == Trans("Func_trans_cndn", <<e, then_lbl, else_lbl, T, sc>>)
Expn_trans_cndn(e, then_lbl, else_lbl, T, sc) == Trans("Expn_trans_cndn", <<e, then_lbl, else_lbl, T, sc>>)
Updt_trans(st, T, sc) == Trans("Updt_trans", <<st, T, sc>>)
Whle_trans(st, exit, T, sc) == Trans("Whle_trans", <<st, exit, T, sc>>)
Tern_trans(st, exit, T, sc) == Trans("Tern_trans", <<st, exit, T, sc>>)
RetE_trans(st, exit, T, sc) == Trans("RetE_trans", <<st, exit, T, sc>>)
Prnt_one(expn, T, sc) == Trans("Prnt_one", <<expn, T, sc>>)
Prms_trans(prms, i, T, sc) == Trans("Prms_trans", <<prms, i, T, sc>>)
Stmt_trans(st, exit, T, sc) == Trans("Stmt_trans", <<st, exit, T, sc>>)
Blck_trans(stmts, i, exit, T, sc) == Trans("Blck_trans", <<stmts, i, exit, T, sc>>)
Scope_trans(name, blck, T, sc) == Trans("Scope_trans", <<name, blck, T, sc>>)
Defs_trans(prgm, i, R) == Trans("Defs_trans", <<prgm, i, R>>)
Prgm_trans(prgm, S) == Trans("Prgm_trans", <<prgm, S>>)

\* Plus, Mnus, Tmes, IDiv, IMod ::trans
Arith_trans_body(e, dest, T, sc) ==
    IF expn_type(e) = IntTy THEN
        LET t1 == Temp(T, sc, expn_type(e.left))
            t2 == Temp(t1.T, sc, expn_type(e.rght))
            l == Expn_trans(e.left, t1.nm, t2.T, sc)
            r == Expn_trans(e.rght, t2.nm, l, sc)
        IN  IF IsError(r.err) THEN r ELSE Emit(r, ALU(AluOp(e.node), dest, t1.nm, t2.nm))
    ELSE T

\* Less, Eqal, LtEq ::trans_cndn
Cmp_trans_cndn_body(e, then_lbl, else_lbl, T, sc) ==
    IF expn_type(e.left) = IntTy /\ expn_type(e.rght) = IntTy THEN
        LET t1 == Temp(T, sc, expn_type(e.left))
            t2 == Temp(t1.T, sc, expn_type(e.rght))
            l == Expn_trans(e.left, t1.nm, t2.T, sc)
            r == Expn_trans(e.rght, t2.nm, l, sc)
        IN  IF IsError(r.err) THEN r
            ELSE Emit(r, BCN(CndnOp(e.node), t1.nm, t2.nm, then_lbl, else_lbl))
    ELSE T

\* Less, Eqal, LtEq, Conj, Disj, Negt ::trans: materialise the condition.
Bool_trans_body(e, dest, T, sc) ==
    LET true_lbl == Labl(T)
        flse_lbl == Labl(true_lbl.T)
        done_lbl == Labl(flse_lbl.T)
        c == Expn_trans_cndn(e, true_lbl.lbl, flse_lbl.lbl, done_lbl.T, sc)
    IN  IF IsError(c.err) THEN c
        ELSE Emit(Emit(Emit(Emit(Emit(Emit(c,
                LBL(true_lbl.lbl)), SET(dest, 1)), JMP(done_lbl.lbl)),
                LBL(flse_lbl.lbl)), SET(dest, 0)), LBL(done_lbl.lbl))

\* The first loop of Proc::trans and Func::trans: [T, srcs].
Args_trans_body(args, i, srcs, T, sc) ==
    IF i > Len(args) \/ IsError(T.err) THEN [T |-> T, srcs |-> srcs]
    ELSE
        LET t == Temp(T, sc, expn_type(args[i])) IN
        Args_trans(args, i + 1, Append(srcs, t.nm), Expn_trans(args[i], t.nm, t.T, sc), sc)

\* The second loop: ARG size-1, srcs.back() while srcs is not empty.
Args_emit(srcs, T) ==
    IF Len(srcs) = 0 THEN T
    ELSE Args_emit(SubSeq(srcs, 1, Len(srcs) - 1), Emit(T, ARG(Len(srcs) - 1, srcs[Len(srcs)])))

Call_trans_body(name, args, T, sc) ==
    LET a == Args_trans(args, 1, <<>>, T, sc) IN
    IF IsError(a.T.err) THEN a.T ELSE Emit(Args_emit(a.srcs, a.T), CLL(name))

Func_trans_body(e, dest, T, sc) ==
    LET c == Call_trans(e.name, e.args, T, sc) IN
    IF IsError(c.err) THEN c ELSE Emit(c, RTV(dest))

Ltrl_trans(e, dest, T) ==
    IF e.valu.k = "int" THEN Emit(T, SET(dest, e.valu.i))
    ELSE IF e.valu.k = "str" THEN
        LET l == Strg(T, e.valu.s) IN Emit(l.T, STL(dest, l.lbl))
    ELSE IF e.valu.k = "bool" THEN Emit(T, SET(dest, IF e.valu.i = 1 THEN 1 ELSE 0))
    ELSE Emit(T, SET(dest, 0))

\* std::get<bool>(valu) throws when the literal holds another alternative.
Ltrl_trans_cndn(e, then_lbl, else_lbl, T) ==
    IF e.valu.k # "bool" THEN [T EXCEPT !.err = BadVariantAccess]
    ELSE IF e.valu.i = 1 THEN Emit(T, JMP(then_lbl))
    ELSE Emit(T, JMP(else_lbl))

Inpt_trans_body(e, dest, T, sc) ==
    LET t == Temp(T, sc, StrTy)
        x == Expn_trans(e.expn, t.nm, t.T, sc)
    IN  IF IsError(x.err) THEN x ELSE Emit(Emit(x, PTS(t.nm)), GTI(dest))

Expn_trans_body(e, dest, T, sc) ==
    IF IsError(T.err) THEN T
    ELSE
    CASE e.node \in {"Plus", "Mnus", "Tmes", "IDiv", "IMod"} -> Arith_trans(e, dest, T, sc)
      [] e.node \in {"Less", "Eqal", "LtEq", "Conj", "Disj", "Negt"} -> Bool_trans(e, dest, T, sc)
      [] e.node = "Func" -> Func_trans(e, dest, T, sc)
      [] e.node \in {"IntC", "StrC"} -> T
      [] e.node = "Ltrl" -> Ltrl_trans(e, dest, T)
      [] e.node = "Lkup" -> Emit(T, MOV(dest, e.name))
      [] OTHER -> Inpt_trans(e, dest, T, sc)

Conj_trans_cndn_body(e, then_lbl, else_lbl, T, sc) ==
    LET cont_lbl == Labl(T)
        l == Expn_trans_cndn(e.left, cont_lbl.lbl, else_lbl, cont_lbl.T, sc)
    IN  IF IsError(l.err) THEN l
        ELSE Expn_trans_cndn(e.rght, then_lbl, else_lbl, Emit(l, LBL(cont_lbl.lbl)), sc)

Disj_trans_cndn_body(e, then_lbl, else_lbl, T, sc) ==
    LET cont_lbl == Labl(T)
        l == Expn_trans_cndn(e.left, then_lbl, cont_lbl.lbl, cont_lbl.T, sc)
    IN  IF IsError(l.err) THEN l
        ELSE Expn_trans_cndn(e.rght, then_lbl, else_lbl, Emit(l, LBL(cont_lbl.lbl)), sc)

Func_trans_cndn_body(e, then_lbl, else_lbl, T, sc) ==
    LET t == Temp(T, sc, expn_type(e))
        f == Func_trans(e, t.nm, t.T, sc)
    IN  IF IsError(f.err) THEN f ELSE Emit(f, BCZ("eqz", t.nm, else_lbl, then_lbl))

\* Every variant without an override inherits Expn::trans_cndn, which emits
\* nothing.
Expn_trans_cndn_body(e, then_lbl, else_lbl, T, sc) ==
    IF IsError(T.err) THEN T
    ELSE
    CASE e.node \in {"Less", "Eqal", "LtEq"} -> Cmp_trans_cndn(e, then_lbl, else_lbl, T, sc)
      [] e.node = "Func" -> Func_trans_cndn(e, then_lbl, else_lbl, T, sc)
      [] e.node = "Conj" -> Conj_trans_cndn(e, then_lbl, else_lbl, T, sc)
      [] e.node = "Disj" -> Disj_trans_cndn(e, then_lbl, else_lbl, T, sc)
      [] e.node = "Negt" -> Expn_trans_cndn(e.expn, else_lbl, then_lbl, T, sc)
      [] e.node = "Ltrl" -> Ltrl_trans_cndn(e, then_lbl, else_lbl, T)
      [] e.node = "Lkup" -> Emit(T, BCZ("gtz", e.name, then_lbl, else_lbl))
      [] OTHER -> T


\* PlEq, MiEq ::trans
Updt_trans_body(st, T, sc) ==
    LET t1 == Temp(T, sc, expn_type(st.expn))
        m == Emit(t1.T, MOV(t1.nm, st.name))
        t2 == Temp(m, sc, expn_type(st.expn))
        x == Expn_trans(st.expn, t2.nm, t2.T, sc)
    IN  IF IsError(x.err) THEN x
        ELSE Emit(x, ALU(IF st.node = "PlEq" THEN "ADD" ELSE "SUB", st.name, t1.nm, t2.nm))

Whle_trans_body(st, exit, T, sc) ==
    LET loop_lbl == Labl(T)
        cont_lbl == Labl(loop_lbl.T)
        done_lbl == Labl(cont_lbl.T)
        c == Expn_trans_cndn(st.expn, cont_lbl.lbl, done_lbl.lbl,
                             Emit(done_lbl.T, LBL(loop_lbl.lbl)), sc)
        b == Blck_trans(st.blck, 1, exit, Emit(c, LBL(cont_lbl.lbl)), sc)
    IN  IF IsError(c.err) THEN c
        ELSE IF IsError(b.err) THEN b
        ELSE Emit(Emit(b, JMP(loop_lbl.lbl)), LBL(done_lbl.lbl))

Tern_trans_body(st, exit, T, sc) ==
    LET if_lbl == Labl(T)
        else_lbl == Labl(if_lbl.T)
        done_lbl == Labl(else_lbl.T)
        c == Expn_trans_cndn(st.expn, if_lbl.lbl, else_lbl.lbl, done_lbl.T, sc)
        b1 == Blck_trans(st.if_blck, 1, exit, Emit(c, LBL(if_lbl.lbl)), sc)
        b2 == Blck_trans(st.else_blck, 1, exit,
                         Emit(Emit(b1, JMP(done_lbl.lbl)), LBL(else_lbl.lbl)), sc)
    IN  IF IsError(c.err) THEN c
        ELSE IF IsError(b1.err) THEN b1
        ELSE IF IsError(b2.err) THEN b2
        ELSE Emit(b2, LBL(done_lbl.lbl))

\* RetE::trans without its jump: control falls into the code after the return.
RetE_trans_falls_through(st, exit, T, sc) ==
    LET t == Temp(T, sc, expn_type(st.expn))
        x == Expn_trans(st.expn, t.nm, t.T, sc)
    IN  IF IsError(x.err) THEN x ELSE Emit(x, RTN(t.nm))

RetE_trans_body(st, exit, T, sc) ==
    LET t == Temp(T, sc, expn_type(st.expn))
        x == Expn_trans(st.expn, t.nm, t.T, sc)
    IN  IF IsError(x.err) THEN x ELSE Emit(Emit(x, RTN(t.nm)), JMP(exit))

Retn_trans(exit, T, sc) ==
    LET t == Temp(T, sc, NoneTy) IN
    Emit(Emit(Emit(t.T, SET(t.nm, 0)), RTN(t.nm)), JMP(exit))

\* The body of Prnt::trans's loop for one parameter.
Prnt_one_body(expn, T, sc) ==
    LET ty == expn_type(expn)
        a == IF ty = IntTy THEN
                 LET t == Temp(T, sc, IntTy)
                     x == Expn_trans(expn, t.nm, t.T, sc)
                 IN  IF IsError(x.err) THEN x ELSE Emit(x, PTI(t.nm))
             ELSE IF ty = StrTy THEN
                 LET t == Temp(T, sc, StrTy)
                     x == Expn_trans(expn, t.nm, t.T, sc)
                 IN  IF IsError(x.err) THEN x ELSE Emit(x, PTS(t.nm))
             ELSE IF ty = BoolTy THEN
                 LET true_lbl == Labl(T)
                     flse_lbl == Labl(true_lbl.T)
                     done_lbl == Labl(flse_lbl.T)
                     t == Temp(done_lbl.T, sc, BoolTy)
                     c == Expn_trans_cndn(expn, true_lbl.lbl, flse_lbl.lbl, t.T, sc)
                 IN  IF IsError(c.err) THEN c
                     ELSE Emit(Emit(Emit(Emit(Emit(Emit(Emit(c,
                            LBL(true_lbl.lbl)), STL(t.nm, TRUE_STRG_LBL)), JMP(done_lbl.lbl)),
                            LBL(flse_lbl.lbl)), STL(t.nm, FLSE_STRG_LBL)), LBL(done_lbl.lbl)),
                            PTS(t.nm))
             ELSE
                 LET dumm == Temp(T, sc, NoneTy)
                     t == Temp(dumm.T, sc, StrTy)
                     x == Expn_trans(expn, dumm.nm, t.T, sc)
                 IN  IF IsError(x.err) THEN x
                     ELSE Emit(Emit(x, STL(t.nm, NONE_STRG_LBL)), PTS(t.nm))
        eoln == Temp(a, sc, StrTy)
    IN  IF IsError(a.err) THEN a
        ELSE Emit(Emit(eoln.T, STL(eoln.nm, EOLN_STRG_LBL)), PTS(eoln.nm))

Prms_trans_body(prms, i, T, sc) ==
    IF i > Len(prms) \/ IsError(T.err) THEN T
    ELSE Prms_trans(prms, i + 1, Prnt_one(prms[i], T, sc), sc)

Stmt_trans_body(st, exit, T, sc) ==
    CASE st.node \in {"Ntro", "Asgn"} -> Expn_trans(st.expn, st.name, T, sc)
      [] st.node \in {"PlEq", "MiEq"} -> Updt_trans(st, T, sc)
      [] st.node = "Whle" -> Whle_trans(st, exit, T, sc)
      [] st.node = "Tern" -> Tern_trans(st, exit, T, sc)
      [] st.node = "RetE" -> RetE_trans(st, exit, T, sc)
      [] st.node = "Retn" -> Retn_trans(exit, T, sc)
      [] st.node = "Pass" -> Emit(T, NOP)
      [] st.node = "Prnt" -> Prms_trans(st.prms, 1, T, sc)
      [] OTHER -> Call_trans(st.name, st.args, T, sc)

Blck_trans_body(stmts, i, exit, T, sc) ==
    IF i > Len(stmts) \/ IsError(T.err) THEN T
    ELSE Blck_trans(stmts, i + 1, exit, Stmt_trans(stmts[i], exit, T, sc), sc)

\* Defn::trans, and the tail of Prgm::trans for the main script: the code
\* of one scope between its two labels.
Scope_trans_body(name, blck, T, sc) ==
    LET def_lbl == add_labl_named(T.G, name)
        ext_lbl == add_labl_named(T.G, name \o "_done")
        b == Blck_trans(blck, 1, ext_lbl, Emit(Emit(T, LBL(def_lbl)), ENTER), sc)
    IN  IF IsError(b.err) THEN b ELSE Emit(Emit(b, LBL(ext_lbl)), LEAVE)


\* The loop of Prgm::trans over defs.  R = [S, G, codes, err].
Defs_trans_body(prgm, i, R) ==
    IF i > Len(prgm.defs) \/ IsError(R.err) THEN R
    ELSE
        LET def == prgm.defs[i]
            t == Scope_trans(def.name, def.blck,
                             [S |-> R.S, G |-> R.G, code |-> <<>>, err |-> NoError], def.name)
        IN  Defs_trans(prgm, i + 1,
                       [S |-> t.S, G |-> t.G, codes |-> Put(R.codes, def.name, t.code),
                        err |-> t.err])

Prgm_trans_body(prgm, S) ==
    LET eoln == add_strg(NewGlbl, "\n")
        true == add_strg(eoln.G, "True")
        flse == add_strg(true.G, "False")
        nne == add_strg(flse.G, "None")
        inpt == add_strg(nne.G, INPT_BUFF_STRG)
        d == Defs_trans(prgm, 1, [S |-> S, G |-> inpt.G, codes |-> <<>>, err |-> NoError])
        m == Scope_trans("main", prgm.main,
                         [S |-> d.S, G |-> d.G, code |-> <<>>, err |-> NoError], MainScope)
    IN  IF IsError(d.err) THEN d
        ELSE [S |-> m.S, G |-> m.G, codes |-> Put(d.codes, MainScope, m.code), err |-> m.err]

Trans(fn, a) ==
    CASE fn = "Arith_trans" -> Arith_trans_body(a[1], a[2], a[3], a[4])
      [] fn = "Cmp_trans_cndn" -> Cmp_trans_cndn_body(a[1], a[2], a[3], a[4], a[5])
      [] fn = "Bool_trans" -> Bool_trans_body(a[1], a[2], a[3], a[4])
      [] fn = "Args_trans" -> Args_trans_body(a[1], a[2], a[3], a[4], a[5])
      [] fn = "Call_trans" -> Call_trans_body(a[1], a[2], a[3], a[4])
      [] fn = "Func_trans" -> Func_trans_body(a[1], a[2], a[3], a[4])
      [] fn = "Inpt_trans" -> Inpt_trans_body(a[1], a[2], a[3], a[4])
      [] fn = "Expn_trans" -> Expn_trans_body(a[1], a[2], a[3], a[4])
      [] fn = "Conj_trans_cndn" -> Conj_trans_cndn_body(a[1], a[2], a[3], a[4], a[5])
      [] fn = "Disj_trans_cndn" -> Disj_trans_cndn_body(a[1], a[2], a[3], a[4], a[5])
      [] fn = "Func_trans_cndn" -> Func_trans_cndn_body(a[1], a[2], a[3], a[4], a[5])
      [] fn = "Expn_trans_cndn" -> Expn_trans_cndn_body(a[1], a[2], a[3], a[4], a[5])
      [] fn = "Updt_trans" -> Updt_trans_body(a[1], a[2], a[3])
      [] fn = "Whle_trans" -> Whle_trans_body(a[1], a[2], a[3], a[4])
      [] fn = "Tern_trans" -> Tern_trans_body(a[1], a[2], a[3], a[4])
      [] fn = "RetE_trans" -> RetE_trans_body(a[1], a[2], a[3], a[4])
      [] fn = "Prnt_one" -> Prnt_one_body(a[1], a[2], a[3])
      [] fn = "Prms_trans" -> Prms_trans_body(a[1], a[2], a[3], a[4])
      [] fn = "Stmt_trans" -> Stmt_trans_body(a[1], a[2], a[3], a[4])
      [] fn = "Blck_trans" -> Blck_trans_body(a[1], a[2], a[3], a[4], a[5])
      [] fn = "Scope_trans" -> Scope_trans_body(a[1], a[2], a[3], a[4])
      [] fn = "Defs_trans" -> Defs_trans_body(a[1], a[2], a[3])
      [] fn = "Prgm_trans" -> Prgm_trans_body(a[1], a[2])
      [] fn = "Emit" -> Emit_body(a[1], a[2])
      [] fn = "Temp" -> Temp_body(a[1], a[2], a[3])
      [] fn = "Labl" -> Labl_body(a[1])
      [] OTHER -> Strg_body(a[1], a[2])

(***************************************************************************)
(* IR -> MIPS  (dwislpy-mips.cc): the frame layout of compile_defn.         *)
(***************************************************************************)
RETURN_ADDRESS == "saved_return_address"
FRAME_POINTER == "saved_frame_pointer"
num_cargs == 4

\* The frame size before it is aligned to a double word.
frame_size_unaligned(num_locls) == 4 * (num_locls + num_cargs + 2)

frame_size_of(num_locls) ==
    LET frame_size == 4 * (num_locls + num_cargs + 2) IN
    IF frame_size % 8 # 0 THEN frame_size + 4 ELSE frame_size

set_frame_offset(symt, nm, offset) ==
    [symt EXCEPT !.sym_table[nm].frame_offset = offset]
get_frame_offset(symt, nm) == get_info(symt, nm).frame_offset

RECURSIVE frml_offsets(_, _)
frml_offsets(symt, i) ==
    IF i >= get_frmls_size(symt) THEN symt
    ELSE frml_offsets(set_frame_offset(symt, get_frml(symt, i + 1).name, i * 4), i + 1)

RECURSIVE locl_offsets(_, _, _)
locl_offsets(symt, i, num_locls) ==
    IF i >= num_locls THEN symt
    ELSE locl_offsets(set_frame_offset(symt, get_locl(symt, i + 1).name, 0 - 4 - 4 * i),
                      i + 1, num_locls)

\* The names an instruction's toMIPS looks up with get_frame_offset.
inst_names(inst) ==
    CASE inst.op \in {"SET", "STL", "RTV", "GTI"} -> {inst.dst}
      [] inst.op = "MOV" -> {inst.dst, inst.src}
      [] inst.op \in {"ADD", "SUB", "MLT", "DIV", "MOD"} -> {inst.dst, inst.src1, inst.src2}
      [] inst.op = "BCN" -> {inst.src1, inst.src2}
      [] inst.op \in {"BCZ", "RTN", "ARG", "PTI", "PTS"} -> {inst.src}
      [] OTHER -> {}

\* compile_defn: [symt, err].  sym_table.at throws for a name it lacks.
compile_defn(symt, code) ==
    LET num_locls == get_locls_size(symt)
        frame_size == frame_size_of(num_locls)
        f == frml_offsets(symt, 0)
        l == locl_offsets(f, 0, num_locls)
        ra == add_locl(l, RETURN_ADDRESS, IntTy)
        fp == add_locl(ra, FRAME_POINTER, IntTy)
        o1 == set_frame_offset(fp, RETURN_ADDRESS, 0 - 4 - 4 * num_locls)
        o2 == set_frame_offset(o1, FRAME_POINTER, 0 - 8 - 4 * num_locls)
        done == [o2 EXCEPT !.frame_size = frame_size]
    IN  [symt |-> done,
         err |-> IF \A i \in 1..Len(code) : \A nm \in inst_names(code[i]) : has_info(done, nm)
                 THEN NoError ELSE OutOfRange]

RECURSIVE Defs_compile(_, _, _)
Defs_compile(prgm, i, R) ==
    IF i > Len(prgm.defs) \/ IsError(R.err) THEN R
    ELSE
        LET nm == prgm.defs[i].name
            c == compile_defn(R.S[nm], R.codes[nm])
        IN  Defs_compile(prgm, i + 1, [R EXCEPT !.S[nm] = c.symt, !.err = c.err])

\* Prgm::compile: trans, then main's code, then each def's.
Prgm_compile(prgm, S) ==
    LET t == Prgm_trans(prgm, S)
        m == compile_defn(t.S[MainScope], t.codes[MainScope])
    IN  IF IsError(t.err) THEN t
        ELSE Defs_compile(prgm, 1, [t EXCEPT !.S[MainScope] = m.symt, !.err = m.err])

\* The .text section, in emission order, each instruction with its scope.
Tagged(code, sc) == [i \in 1..Len(code) |-> [inst |-> code[i], sc |-> sc]]
RECURSIVE DefsTagged(_, _, _)
DefsTagged(prgm, i, codes) ==
    IF i > Len(prgm.defs) THEN <<>>
    ELSE Tagged(codes[prgm.defs[i].name], prgm.defs[i].name) \o DefsTagged(prgm, i + 1, codes)
Text(prgm, R) == Tagged(R.codes[MainScope], MainScope) \o DefsTagged(prgm, 1, R.codes)

\* The definition sites of labels in one emission: the .data labels and
\* every `lbl:` line of the .text section.
LabelSites(prgm, R) ==
    [i \in 1..Len(R.G.strings) |-> R.G.strings[i].lbl]
    \o LET tx == Text(prgm, R)
            RECURSIVE lbls(_)
            lbls(i) == IF i > Len(tx) THEN <<>>
                       ELSE IF tx[i].inst.op = "LBL" THEN <<tx[i].inst.lbl>> \o lbls(i + 1)
                       ELSE lbls(i + 1)
        IN  lbls(1)
Sites(seq, l) == {i \in 1..Len(seq) : seq[i] = l}

(***************************************************************************)
(* Execution of the emitted MIPS  (the toMIPS methods of dwislpy-mips.cc),  *)
(* one IR pseudo-instruction at a time.  A word is an integer; mem maps the *)
(* addresses written so far to their words, and a load from any other       *)
(* address yields whatever the memory held, the word g.                     *)
(***************************************************************************)
\* The address SPIM loads the .data section at, and the stack pointer it starts with.
DataBase == 268500992
StackTop == 2147479548
Garbage == {0, 1}

RECURSIVE StrAddr(_, _)
\* The address of the i-th .asciiz string of the .data section.
StrAddr(strings, i) ==
    IF i = 1 THEN DataBase ELSE StrAddr(strings, i - 1) + Len(strings[i - 1].strg) + 1
LblAddr(strings, lbl) ==
    StrAddr(strings, CHOOSE i \in 1..Len(strings) : strings[i].lbl = lbl)
IsStrAddr(strings, a) == \E i \in 1..Len(strings) : StrAddr(strings, i) = a
StrAt(strings, a) == strings[CHOOSE i \in 1..Len(strings) : StrAddr(strings, i) = a].strg

\* The .s file assembles when every label has one definition site and every
\* label an instruction names has one.
inst_lbls(inst) ==
    CASE inst.op \in {"JMP", "CLL", "STL"} -> {inst.lbl}
      [] inst.op \in {"BCN", "BCZ"} -> {inst.lblt, inst.lblf}
      [] OTHER -> {}
Assembles(prgm, R) ==
    LET sites == LabelSites(prgm, R)
        tx == Text(prgm, R)
    IN  /\ \A i \in 1..Len(sites) : Cardinality(Sites(sites, sites[i])) = 1
        /\ \A i \in 1..Len(tx) : \A l \in inst_lbls(tx[i].inst) : Cardinality(Sites(sites, l)) = 1
        /\ \A i \in 1..Len(tx) : tx[i].inst.op = "ARG" => tx[i].inst.idx < 4
        /\ \A sc \in DOMAIN R.S : get_frmls_size(R.S[sc]) <= 4
LabelAt(tx, lbl) == CHOOSE i \in 1..Len(tx) : tx[i].inst.op = "LBL" /\ tx[i].inst.lbl = lbl

\* pc = 0 stands for the return address the start-up code calls main with.
NewMachine(tx, inp) ==
    [pc |-> LabelAt(tx, "main"), a |-> <<0, 0, 0, 0>>, v0 |-> 0, ra |-> 0,
     sp |-> StackTop, fp |-> 0, mem |-> <<>>, out |-> "", inp |-> inp,
     fault |-> FALSE, steps |-> 0, hist |-> <<>>]

lw(M, addr, g) == IF addr \in DOMAIN M.mem THEN M.mem[addr] ELSE g
sw(M, addr, w) == [M EXCEPT !.mem = Put(M.mem, addr, w)]
Goto(M, n) == [M EXCEPT !.pc = n]
Fall(M) == [M EXCEPT !.pc = M.pc + 1]

RECURSIVE save_args(_, _, _)
\* The loop of ENTER::toMIPS: sw $a<argi>,slot($fp).
save_args(M, symt, argi) ==
    IF argi >= get_frmls_size(symt) THEN M
    ELSE save_args(sw(M, M.fp + get_frame_offset(symt, get_frml(symt, argi + 1).name),
                      M.a[argi + 1]),
                   symt, argi + 1)

ENTER_step(M, symt) ==
    LET m1 == sw(M, M.sp + get_frame_offset(symt, RETURN_ADDRESS), M.ra)
        m2 == sw(m1, M.sp + get_frame_offset(symt, FRAME_POINTER), M.fp)
        m3 == [m2 EXCEPT !.fp = M.sp, !.sp = M.sp - symt.frame_size]
    IN  Fall(save_args(m3, symt, 0))

LEAVE_step(M, symt, g) ==
    LET ra == lw(M, M.fp + get_frame_offset(symt, RETURN_ADDRESS), g)
        fp == lw(M, M.fp + get_frame_offset(symt, FRAME_POINTER), g)
    IN  [M EXCEPT !.ra = ra, !.fp = fp, !.sp = M.sp + symt.frame_size, !.pc = ra]

ALU_word(op, t1, t2, g) ==
    CASE op = "ADD" -> t1 + t2
      [] op = "SUB" -> t1 - t2
      [] op = "MLT" -> t1 * t2
      [] op = "DIV" -> IF t2 = 0 THEN g ELSE CDiv(t1, t2)
      [] OTHER -> IF t2 = 0 THEN g ELSE CMod(t1, t2)

Branch(cndn, t1, t2) ==
    CASE cndn = "lt" -> t1 < t2
      [] cndn = "eq" -> t1 = t2
      [] cndn = "le" -> t1 <= t2
      [] cndn = "gtz" -> t1 > 0
      [] OTHER -> t1 = 0

\* syscall 5: the next line of standard input read as an int.
read_int(M, g) ==
    IF Len(M.inp) = 0 THEN [M EXCEPT !.v0 = g]
    ELSE [M EXCEPT !.v0 = IF stoi_converts(Head(M.inp)) THEN stoi(Head(M.inp)) ELSE g,
                   !.inp = Tail(M.inp)]

\* The addresses jr $ra can go to: the start-up code's, and the instruction
\* after a jal.  Any other word is no instruction's address.
IsRetAddr(tx, a) == a = 0 \/ (a - 1 \in 1..Len(tx) /\ tx[a - 1].inst.op = "CLL")

\* The effect of the instruction at M.pc.
Step(M, tx, R, g) ==
    LET inst == tx[M.pc].inst
        symt == R.S[tx[M.pc].sc]
        at(nm) == M.fp + get_frame_offset(symt, nm)
        op == inst.op
    IN
    CASE op = "ENTER" -> ENTER_step(M, symt)
      [] op = "LEAVE" ->
            LET m == LEAVE_step(M, symt, g) IN
            IF IsRetAddr(tx, m.pc) THEN m ELSE [m EXCEPT !.fault = TRUE]
      [] op = "SET" -> Fall(sw(M, at(inst.dst), inst.val))
      [] op = "STL" -> Fall(sw(M, at(inst.dst), LblAddr(R.G.strings, inst.lbl)))
      [] op = "MOV" -> Fall(sw(M, at(inst.dst), lw(M, at(inst.src), g)))
      [] op = "RTV" -> Fall(sw(M, at(inst.dst), M.v0))
      [] op = "GTI" -> LET r == read_int(M, g) IN Fall(sw(r, at(inst.dst), r.v0))
      [] op \in {"NOP", "LBL"} -> Fall(M)
      [] op = "PTI" ->
            LET a0 == lw(M, at(inst.src), g) IN
            Fall([M EXCEPT !.a[1] = a0, !.v0 = 1, !.out = M.out \o IntToStr(a0)])
      [] op = "PTS" ->
            LET a0 == lw(M, at(inst.src), g) IN
            IF IsStrAddr(R.G.strings, a0)
            THEN Fall([M EXCEPT !.a[1] = a0, !.v0 = 4, !.out = M.out \o StrAt(R.G.strings, a0)])
            ELSE [M EXCEPT !.a[1] = a0, !.v0 = 4, !.fault = TRUE]
      [] op \in {"ADD", "SUB", "MLT", "DIV", "MOD"} ->
            Fall(sw(M, at(inst.dst),
                    ALU_word(op, lw(M, at(inst.src1), g), lw(M, at(inst.src2), g), g)))
      [] op = "RTN" -> Fall([M EXCEPT !.v0 = lw(M, at(inst.src), g)])
      [] op = "BCN" ->
            IF Branch(inst.cndn, lw(M, at(inst.src1), g), lw(M, at(inst.src2), g))
            THEN Goto(M, LabelAt(tx, inst.lblt)) ELSE Goto(M, LabelAt(tx, inst.lblf))
      [] op = "BCZ" ->
            IF Branch(inst.cndn, lw(M, at(inst.src), g), 0)
            THEN Goto(M, LabelAt(tx, inst.lblt)) ELSE Goto(M, LabelAt(tx, inst.lblf))
      [] op = "JMP" -> Goto(M, LabelAt(tx, inst.lbl))
      [] op = "CLL" -> [M EXCEPT !.ra = M.pc + 1, !.pc = LabelAt(tx, inst.lbl)]
      [] OTHER -> Fall([M EXCEPT !.a[inst.idx + 1] = lw(M, at(inst.src), g)])

\* The names whose frame slots an instruction's toMIPS loads.
inst_reads(inst) ==
    CASE inst.op = "MOV" -> {inst.src}
      [] inst.op \in {"ADD", "SUB", "MLT", "DIV", "MOD", "BCN"} -> {inst.src1, inst.src2}
      [] inst.op \in {"BCZ", "RTN", "ARG", "PTI", "PTS"} -> {inst.src}
      [] OTHER -> {}

\* What the machine is about to do: the instruction at M.pc, the registers
\* it starts with, the names it loads from slots nothing has stored to, and
\* the words it loads from the others.
Snap(M, tx, R) ==
    LET at(nm) == M.fp + get_frame_offset(R.S[tx[M.pc].sc], nm)
        unw == {nm \in inst_reads(tx[M.pc].inst) : at(nm) \notin DOMAIN M.mem}
    IN  [pc |-> M.pc, sp |-> M.sp, fp |-> M.fp, ra |-> M.ra, v0 |-> M.v0, unw |-> unw,
         val |-> [nm \in inst_reads(tx[M.pc].inst) \ unw |-> M.mem[at(nm)]]]

Halted(M, tx) == M.fault \/ M.pc < 1 \/ M.pc > Len(tx)

(***************************************************************************)
(* The two commands  (dwislpy-main.cc, dwislpyc.cc), run without --dump.    *)
(* dwislpy:  parse, check, run.   dwislpyc: parse, check, run, check again, *)
(* compile; the .s file it wrote is then assembled and run.  A DwislpyError *)
(* is caught and reported by main; any other exception ends the process.    *)
(***************************************************************************)
VARIABLES cmd, testing, parses, prgm, stdin, pc, S, chk1, chk2, ran, R, M,
          out, errout, caught, status, ret1, ret2, joined

vars == <<cmd, testing, parses, prgm, stdin, pc, S, chk1, chk2, ran, R, M,
          out, errout, caught, status, ret1, ret2, joined>>

MaxFuel == 3
MaxSteps == 120

NoChck == [done |-> FALSE, err |-> NoError, tys |-> <<>>, brs |-> <<>>, rtns |-> <<>>,
           log |-> <<>>]
NoRun == [done |-> FALSE, err |-> NoError, out |-> "", fell |-> FALSE, log |-> <<>>]
NoCode == [done |-> FALSE, err |-> NoError, S |-> <<>>, G |-> NewGlbl, codes |-> <<>>]
NoMachine == [pc |-> 0, a |-> <<0, 0, 0, 0>>, v0 |-> 0, ra |-> 0, sp |-> StackTop, fp |-> 0,
              mem |-> <<>>, out |-> "", inp |-> <<>>, fault |-> FALSE, steps |-> 0,
              hist |-> <<>>]

RECURSIVE add_frmls(_, _, _)
add_frmls(symt, frmls, i) ==
    IF i > Len(frmls) THEN symt
    ELSE add_frmls(add_frml(symt, frmls[i].name, frmls[i].type), frmls, i + 1)

\* The symbol tables as the parser leaves them: each definition's holds its
\* formals, the main script's is empty.
ParsedSymTs(p) ==
    [sc \in DefNames(p) \cup {MainScope} |->
        IF sc = MainScope THEN NewSymT ELSE add_frmls(NewSymT, defs_at(p, sc).frmls, 1)]

Done(r) == [done |-> TRUE, err |-> r.err, tys |-> r.K.tys, brs |-> r.K.brs, rtns |-> r.rtns,
            log |-> r.K.log]

Throws(e) == IF e.kind = "DwislpyError" THEN "catch" ELSE "abort"

\* Driver::parse: throws when the file cannot be opened or does not parse.
Parse ==
    /\ pc = "parse"
    /\ IF parses
       THEN /\ pc' = "check"
            /\ S' = ParsedSymTs(prgm)
            /\ caught' = caught
       ELSE /\ pc' = "catch"
            /\ S' = S
            /\ caught' = DwislpyError("Unable to open file. Does the file exist?")
    /\ UNCHANGED <<cmd, testing, parses, prgm, stdin, chk1, chk2, ran, R, M,
                   out, errout, status, ret1, ret2, joined>>

\* Driver::check, the first time.
Check ==
    /\ pc = "check"
    /\ \E r \in {Prgm_chck(prgm, S)} :
       /\ chk1' = Done(r)
       /\ S' = r.K.S
       /\ caught' = r.err
       /\ pc' = IF IsError(r.err) THEN Throws(r.err) ELSE "run"
    /\ UNCHANGED <<cmd, testing, parses, prgm, stdin, chk2, ran, R, M,
                   out, errout, status, ret1, ret2, joined>>

\* Driver::run.
Run ==
    /\ pc = "run"
    /\ \E r \in {Prgm_run(prgm, [out |-> out, inp |-> stdin, fell |-> FALSE, fuel |-> MaxFuel,
                                 depth |-> 0, log |-> <<>>])} :
       /\ ran' = [done |-> TRUE, err |-> r.err, out |-> r.W.out, fell |-> r.W.fell,
                  log |-> r.W.log]
       /\ out' = r.W.out
       /\ caught' = r.err
       /\ pc' = IF r.err = OutOfFuel THEN "running"
                ELSE IF IsError(r.err) THEN Throws(r.err)
                ELSE IF cmd = "dwislpyc" THEN "recheck" ELSE "exit"
    /\ UNCHANGED <<cmd, testing, parses, prgm, stdin, S, chk1, chk2, R, M,
                   errout, status, ret1, ret2, joined>>

\* Driver::check, the second time (dwislpyc only).
Recheck ==
    /\ pc = "recheck"
    /\ \E r \in {Prgm_chck(prgm, S)} :
       /\ chk2' = Done(r)
       /\ S' = r.K.S
       /\ caught' = r.err
       /\ pc' = IF IsError(r.err) THEN Throws(r.err) ELSE "compile"
    /\ UNCHANGED <<cmd, testing, parses, prgm, stdin, chk1, ran, R, M,
                   out, errout, status, ret1, ret2, joined>>

\* Driver::compile.
Compile ==
    /\ pc = "compile"
    /\ \E r \in {Prgm_compile(prgm, S)} :
       /\ R' = [done |-> TRUE, err |-> r.err, S |-> r.S, G |-> r.G, codes |-> r.codes]
       /\ caught' = r.err
       /\ pc' = IF IsError(r.err) THEN Throws(r.err) ELSE "exit"
    /\ UNCHANGED <<cmd, testing, parses, prgm, stdin, S, chk1, chk2, ran, M,
                   out, errout, status, ret1, ret2, joined>>

\* The catch clause of main.
Catch ==
    /\ pc = "catch"
    /\ IF cmd = "dwislpy" /\ testing
       THEN out' = out \o "ERROR\n" /\ errout' = errout
       ELSE errout' = errout \o caught.msg \o "\n" /\ out' = out
    /\ pc' = "exit"
    /\ UNCHANGED <<cmd, testing, parses, prgm, stdin, S, chk1, chk2, ran, R, M,
                   caught, status, ret1, ret2, joined>>

\* main runs off its end, or std::terminate ends the process.
Exit ==
    /\ pc \in {"exit", "abort"}
    /\ status' = IF pc = "abort" THEN "SIGABRT" ELSE "0"
    /\ pc' = "exited"
    /\ UNCHANGED <<cmd, testing, parses, prgm, stdin, S, chk1, chk2, ran, R, M,
                   out, errout, caught, ret1, ret2, joined>>

\* The emitted file is assembled and loaded.
Load ==
    /\ pc = "exited" /\ R.done /\ ~IsError(R.err)
    /\ IF Assembles(prgm, R)
       THEN M' = NewMachine(Text(prgm, R), stdin) /\ pc' = "spim"
       ELSE M' = M /\ pc' = "rejected"
    /\ UNCHANGED <<cmd, testing, parses, prgm, stdin, S, chk1, chk2, ran, R,
                   out, errout, caught, status, ret1, ret2, joined>>

\* The machine executes one pseudo-instruction, or stops.
ExecStep ==
    /\ pc = "spim"
    /\ IF Halted(M, Text(prgm, R))
       THEN M' = M /\ pc' = "halted"
       ELSE /\ M.steps < MaxSteps
            /\ \E g \in Garbage :
                 M' = [Step(M, Text(prgm, R), R, g) EXCEPT
                          !.steps = M.steps + 1,
                          !.hist = Append(M.hist, Snap(M, Text(prgm, R), R))]
            /\ pc' = pc
    /\ UNCHANGED <<cmd, testing, parses, prgm, stdin, S, chk1, chk2, ran, R,
                   out, errout, caught, status, ret1, ret2, joined>>

Next ==
    \/ Parse
    \/ Check
    \/ Run
    \/ Recheck
    \/ Compile
    \/ Catch
    \/ Exit
    \/ Load
    \/ ExecStep

(***************************************************************************)
(* The programs and invocations explored.                                   *)
(***************************************************************************)
MaxFlow == 4
MaxTyped == 2
MaxComp == 2

One == Ltrl(IntV(1))
Two == Ltrl(IntV(2))
FlowLeaves == {Pass, Retn, RetE(One)}
FlowConds == {Ltrl(BoolV(FALSE))}

RECURSIVE StmtsOfSize(_)
RECURSIVE BlcksOfSize(_)
\* The statements, and the non-empty blocks, of n statement nodes in all.
StmtsOfSize(n) ==
    IF n = 1 THEN FlowLeaves
    ELSE {Whle(c, b) : c \in FlowConds, b \in BlcksOfSize(n - 1)}
         \cup UNION {{Tern(c, b1, b2) : c \in FlowConds, b1 \in BlcksOfSize(i),
                                        b2 \in BlcksOfSize(n - 1 - i)} : i \in 1..(n - 2)}
BlcksOfSize(n) ==
    {<<st>> : st \in StmtsOfSize(n)}
    \cup UNION {{<<st>> \o b : st \in StmtsOfSize(i), b \in BlcksOfSize(n - i)} : i \in 1..(n - 1)}
FlowBlcks == UNION {BlcksOfSize(n) : n \in 1..MaxFlow}

PrntCall(f, as) == <<Prnt(<<Func(f, as)>>)>>
FlowPrgms ==
    {Prgm(<<Defn("f", <<>>, IntTy, b)>>, PrntCall("f", <<>>)) : b \in FlowBlcks}
    \cup {Prgm(<<>>, b) : b \in FlowBlcks}

SeqsUpTo(set, n) == UNION {[1..k -> set] : k \in 1..n}
IntX == <<[name |-> "x", type |-> IntTy]>>
IntXY == <<[name |-> "x", type |-> IntTy], [name |-> "y", type |-> IntTy]>>
IntFive == [i \in 1..5 |-> [name |-> <<"x", "y", "z", "u", "v">>[i], type |-> IntTy]]

TypedStmts ==
    {RetE(Lkup("x")), RetE(Ltrl(StrV("a"))),
     Ntro("x", StrTy, Ltrl(StrV("a"))), Ntro("y", IntTy, Lkup("x"))}
TypedPrgms ==
    {Prgm(<<Defn("f", IntX, rt, b)>>, PrntCall("f", <<a>>)) :
        rt \in {IntTy, StrTy}, b \in SeqsUpTo(TypedStmts, MaxTyped),
        a \in {One, Ltrl(StrV("a"))}}
    \cup {Prgm(<<Defn("f", <<>>, rt, b)>>, PrntCall("f", <<>>)) :
            rt \in {IntTy, StrTy}, b \in SeqsUpTo(TypedStmts, MaxTyped)}

CompStmts ==
    {Ntro("x", IntTy, Ltrl(IntV(0))), Ntro("x", IntTy, Two),
     Ntro("x", IntTy, BinOp("Mnus", Ltrl(IntV(0)), One)),
     Tern(Lkup("x"), <<Prnt(<<One>>)>>, <<Prnt(<<Two>>)>>),
     Whle(Lkup("x"), <<MiEq("x", One)>>),
     Tern(One, <<Pass>>, <<Pass>>),
     Prnt(<<>>), Prnt(<<Lkup("x")>>), Prnt(<<Ltrl(StrV("a"))>>),
     Ntro("x", IntTy, UnOp("IntC", UnOp("Inpt", Ltrl(StrV("?")))))}
CompPrgms == {Prgm(<<>>, b) : b \in SeqsUpTo(CompStmts, MaxComp)}

DefNameChoices == {"g", "main", "f_done"}
CallShapes ==
    {[frmls |-> <<>>, expn |-> Two, args |-> <<>>],
     [frmls |-> IntX, expn |-> Lkup("x"), args |-> <<One>>],
     [frmls |-> IntX, expn |-> BinOp("Plus", Lkup("x"), One), args |-> <<One>>],
     [frmls |-> IntXY, expn |-> Lkup("y"), args |-> <<One, Two>>],
     [frmls |-> IntXY, expn |-> BinOp("Tmes", Lkup("x"), Lkup("y")), args |-> <<Two, Two>>],
     [frmls |-> IntFive, expn |-> Lkup("v"), args |-> <<One, Two, One, Two, One>>]}
\* defs is an unordered_map: either definition may come first when it is walked.
DefsOrders(d1, d2) == {<<d1, d2>>, <<d2, d1>>}
CallPrgms ==
    UNION {{Prgm(ds, PrntCall("f", <<>>) \o PrntCall(nm, sh.args)) :
                ds \in DefsOrders(Defn("f", <<>>, IntTy, <<RetE(One)>>),
                                  Defn(nm, sh.frmls, IntTy, <<RetE(sh.expn)>>))} :
           nm \in DefNameChoices, sh \in CallShapes}

\* Calls whose body returns from inside an if/else or a while, or updates
\* its formal, made by a caller that holds variables of its own.
Zero == Ltrl(IntV(0))
BodyStmts ==
    {Retn, RetE(Lkup("x")), Prnt(<<Lkup("x")>>), MiEq("x", One),
     Tern(Lkup("x"), <<RetE(One)>>, <<Pass>>), Tern(Lkup("x"), <<Retn>>, <<Pass>>),
     Whle(Lkup("x"), <<RetE(Two)>>), Whle(Lkup("x"), <<MiEq("x", One)>>)}
CallStmts ==
    {Prnt(<<Func("f", <<Lkup("x")>>)>>), Proc("f", <<Lkup("x")>>),
     Asgn("y", Func("f", <<Lkup("x")>>))}
BodyPrgms ==
    {Prgm(<<Defn("f", IntX, rt, b)>>,
          <<Ntro("x", IntTy, a), Ntro("y", IntTy, Two), c, Prnt(<<Lkup("x")>>)>>) :
        rt \in {IntTy, NoneTy}, b \in SeqsUpTo(BodyStmts, MaxTyped), a \in {Zero, Two},
        c \in CallStmts}

\* One printed operator: and / or over operands with and without effects,
\* == over values of every kind.
TrueL == Ltrl(BoolV(TRUE))
FalseL == Ltrl(BoolV(FALSE))
StrA == Ltrl(StrV("a"))
DivByZero == BinOp("Eqal", BinOp("IDiv", One, Zero), Zero)
BoolLefts == {TrueL, FalseL, Zero}
BoolRghts == {UnOp("Inpt", Ltrl(StrV("?"))), DivByZero, TrueL, FalseL}
EqalVals == {One, Two, TrueL, FalseL, StrA, Ltrl(StrV("b")), Ltrl(NoneV)}
ExprPrgms ==
    {Prgm(<<>>, <<Prnt(<<BinOp(op, l, r)>>)>>) :
        op \in {"Conj", "Disj"}, l \in BoolLefts, r \in BoolRghts}
    \cup {Prgm(<<>>, <<Prnt(<<BinOp("Eqal", l, r)>>)>>) : l \in EqalVals, r \in EqalVals}

\* An if/else on a condition built from and, or, not over leaves: boolean
\* literals, comparisons, and a sum that is 0.
CondLeaves ==
    {TrueL, FalseL, BinOp("Less", One, Two), BinOp("Eqal", One, Two), BinOp("Eqal", StrA, StrA),
     BinOp("Plus", Zero, Zero)}
CondPairs == {BinOp(op, l, r) : op \in {"Conj", "Disj"}, l \in CondLeaves, r \in CondLeaves}
CondExprs ==
    CondLeaves \cup CondPairs \cup {UnOp("Negt", c) : c \in CondLeaves \cup CondPairs}
CondPrgms ==
    {Prgm(<<>>, <<Tern(c, <<Prnt(<<One>>)>>, <<Prnt(<<Two>>)>>)>>) : c \in CondExprs}

\* An if/else on a condition of a variant that has no trans_cndn of its own.
DfltConds ==
    {BinOp(op, One, One) : op \in {"Plus", "Mnus", "Tmes", "IDiv", "IMod"}}
    \cup {UnOp("Inpt", Ltrl(StrV("?"))), UnOp("IntC", Ltrl(StrV("2"))), UnOp("StrC", One)}
DfltPrgms ==
    {Prgm(<<>>, <<Tern(c, <<Prnt(<<One>>)>>, <<Prnt(<<Two>>)>>)>>) : c \in DfltConds}

\* A loop that counts x down, on a condition of each kind of lowering.
WhleConds == {Lkup("x"), BinOp("Less", Zero, Lkup("x")), BinOp("Plus", Lkup("x"), Zero)}
WhlePrgms ==
    {Prgm(<<>>, <<Ntro("x", IntTy, a), Whle(c, <<MiEq("x", One)>>), Prnt(<<Lkup("x")>>)>>) :
        a \in {Zero, Two}, c \in WhleConds}

\* A function that calls itself, and one that calls another and then uses
\* its own formal and local.
RecDefn ==
    Defn("f", IntX, IntTy,
         <<Tern(Lkup("x"), <<RetE(Func("f", <<BinOp("Mnus", Lkup("x"), One)>>))>>,
                <<RetE(Zero)>>)>>)
NestDefns ==
    <<Defn("f", IntX, IntTy, <<RetE(BinOp("Plus", Lkup("x"), One))>>),
      Defn("g", IntX, IntTy,
           <<Ntro("y", IntTy, Func("f", <<Lkup("x")>>)),
             RetE(BinOp("Tmes", Lkup("y"), Lkup("x")))>>)>>
RecPrgms ==
    {Prgm(<<RecDefn>>, PrntCall("f", <<a>>)) : a \in {Zero, One, Two}}
    \cup {Prgm(NestDefns, PrntCall("g", <<a>>)) : a \in {One, Two}}

\* A variable under a name of the programmer's choice, set, then read after
\* a print of something else.
UserNames == {"x", "temp_2", "saved_return_address", "saved_frame_pointer"}
NamePrgms ==
    {Prgm(<<>>, <<Ntro(n, IntTy, Two), Prnt(<<One>>), Prnt(<<Lkup(n)>>)>>) : n \in UserNames}

\* A variable read after an introduction that may not have run: in its own
\* initialiser, in one branch of an if/else, in the body of a while.
UseIntros ==
    {Ntro("x", IntTy, Lkup("x")), Ntro("x", IntTy, One),
     Whle(Zero, <<Ntro("x", IntTy, One)>>),
     Whle(Lkup("y"), <<Ntro("x", IntTy, One), MiEq("y", One)>>)}
    \cup {Tern(c, <<Ntro("x", IntTy, One)>>, <<Pass>>) : c \in {Zero, One}}
    \cup {Tern(c, <<Pass>>, <<Ntro("x", IntTy, One)>>) : c \in {Zero, One}}
UsePrgms ==
    {Prgm(<<>>, <<Ntro("y", IntTy, a), n, Prnt(<<Lkup("x")>>)>>) :
        a \in {Zero, One}, n \in UseIntros}

\* One call or two of four or of five arguments: the main script's frame
\* holds an odd or an even number of words.
WideArgs(n) == [i \in 1..n |-> IF i = n THEN Two ELSE One]
WideDefn(n) == Defn("g", SubSeq(IntFive, 1, n), IntTy, <<RetE(Lkup(IntFive[n].name))>>)
WidePrgms ==
    {Prgm(<<WideDefn(n)>>, PrntCall("g", WideArgs(n))) : n \in {4, 5}}
    \cup {Prgm(<<WideDefn(n)>>, PrntCall("g", WideArgs(n)) \o PrntCall("g", WideArgs(n))) :
            n \in {4, 5}}

Prgms ==
    FlowPrgms \cup TypedPrgms \cup CompPrgms \cup CallPrgms \cup BodyPrgms \cup ExprPrgms
    \cup CondPrgms \cup DfltPrgms \cup WhlePrgms \cup RecPrgms \cup NamePrgms \cup UsePrgms
    \cup WidePrgms

RECURSIVE ExpnReads(_)
ExpnReads(e) ==
    CASE e.node = "Inpt" -> TRUE
      [] e.node \in {"Negt", "IntC", "StrC"} -> ExpnReads(e.expn)
      [] e.node \in {"Ltrl", "Lkup"} -> FALSE
      [] e.node = "Func" -> \E i \in 1..Len(e.args) : ExpnReads(e.args[i])
      [] OTHER -> ExpnReads(e.left) \/ ExpnReads(e.rght)
RECURSIVE BlckReads(_)
BlckReads(b) ==
    \E i \in 1..Len(b) :
        CASE b[i].node \in {"Ntro", "Asgn", "PlEq", "MiEq", "RetE"} -> ExpnReads(b[i].expn)
          [] b[i].node = "Prnt" -> \E j \in 1..Len(b[i].prms) : ExpnReads(b[i].prms[j])
          [] b[i].node = "Proc" -> \E j \in 1..Len(b[i].args) : ExpnReads(b[i].args[j])
          [] b[i].node = "Whle" -> ExpnReads(b[i].expn) \/ BlckReads(b[i].blck)
          [] b[i].node = "Tern" ->
                ExpnReads(b[i].expn) \/ BlckReads(b[i].if_blck) \/ BlckReads(b[i].else_blck)
          [] OTHER -> FALSE
\* Whether the program reads standard input at all.
Reads(p) == BlckReads(p.main) \/ \E i \in 1..Len(p.defs) : BlckReads(p.defs[i].blck)
Streams == {<<>>, <<"2">>, <<"a">>}

Init ==
    /\ cmd \in {"dwislpy", "dwislpyc"}
    /\ testing \in (IF cmd = "dwislpy" THEN BOOLEAN ELSE {FALSE})
    /\ parses \in BOOLEAN
    /\ prgm \in Prgms
    /\ stdin \in (IF Reads(prgm) THEN Streams ELSE {<<>>})
    /\ pc = "parse"
    /\ S = <<>>
    /\ chk1 = NoChck
    /\ chk2 = NoChck
    /\ ran = NoRun
    /\ R = NoCode
    /\ M = NoMachine
    /\ out = ""
    /\ errout = ""
    /\ caught = NoError
    /\ status = "none"
    /\ ret1 = Void
    /\ ret2 = Void
    /\ joined = [done |-> FALSE, err |-> NoError, rtns |-> Void]

Spec == Init /\ [][Next]_vars

(***************************************************************************)
(* plus on its own: every pair of Rtns, joined once.                        *)
(***************************************************************************)
InitPlus ==
    /\ cmd = "dwislpy"
    /\ testing = FALSE
    /\ parses = TRUE
    /\ prgm = Prgm(<<>>, <<Pass>>)
    /\ stdin = <<>>
    /\ pc = "plus"
    /\ S = <<>>
    /\ chk1 = NoChck
    /\ chk2 = NoChck
    /\ ran = NoRun
    /\ R = NoCode
    /\ M = NoMachine
    /\ out = ""
    /\ errout = ""
    /\ caught = NoError
    /\ status = "none"
    /\ ret1 \in Rtns
    /\ ret2 \in Rtns
    /\ joined = [done |-> FALSE, err |-> NoError, rtns |-> Void]

Join ==
    /\ pc = "plus"
    /\ ~joined.done
    /\ LET p == plus(ret1, ret2) IN joined' = [done |-> TRUE, err |-> p.err, rtns |-> p.rtns]
    /\ UNCHANGED <<cmd, testing, parses, prgm, stdin, pc, S, chk1, chk2, ran, R, M,
                   out, errout, caught, status, ret1, ret2>>

NextPlus == Join

SpecPlus == InitPlus /\ [][NextPlus]_vars

(***************************************************************************)
(* The properties.                                                          *)
(***************************************************************************)
Accepted(chk) == chk.done /\ ~IsError(chk.err)

RECURSIVE BlckReturns(_)
\* Whether a block holds a return statement at any depth.
BlckReturns(b) ==
    \E i \in 1..Len(b) :
        CASE b[i].node \in {"Retn", "RetE"} -> TRUE
          [] b[i].node = "Whle" -> BlckReturns(b[i].blck)
          [] b[i].node = "Tern" -> BlckReturns(b[i].if_blck) \/ BlckReturns(b[i].else_blck)
          [] OTHER -> FALSE

\* C1: return-flow soundness.  When the checker accepted the program, no call
\* of a definition ends with its body run to the end without a return.
C1_ReturnFlowSound ==
    (Accepted(chk1) /\ ran.done /\ ~IsError(ran.err)) => ~ran.fell

\* C2: the table of plus.  plus(Void,Void) = Void; plus(Void,T) = plus(T,Void)
\* = VoidOr(T); plus(VoidOr(T),T) = plus(T,VoidOr(T)) = VoidOr(T); plus(T,T) = T;
\* and plus throws when its arguments carry two different types.
C2_PlusTable ==
    joined.done =>
        /\ (holds_Void(ret1) /\ holds_Void(ret2))
              => (joined.err = NoError /\ joined.rtns = Void)
        /\ (holds_Void(ret1) /\ holds_Type(ret2))
              => (joined.err = NoError /\ joined.rtns = VoidOr(ret2.type))
        /\ (holds_Type(ret1) /\ holds_Void(ret2))
              => (joined.err = NoError /\ joined.rtns = VoidOr(ret1.type))
        /\ (holds_VoidOr(ret1) /\ holds_Type(ret2) /\ ret1.type = ret2.type)
              => (joined.err = NoError /\ joined.rtns = VoidOr(ret1.type))
        /\ (holds_Type(ret1) /\ holds_VoidOr(ret2) /\ ret1.type = ret2.type)
              => (joined.err = NoError /\ joined.rtns = VoidOr(ret1.type))
        /\ (holds_Type(ret1) /\ holds_Type(ret2) /\ ret1.type = ret2.type)
              => (joined.err = NoError /\ joined.rtns = ret1)
        /\ (~holds_Void(ret1) /\ ~holds_Void(ret2) /\ ret1.type # ret2.type)
              => joined.err.kind = "DwislpyError"

\* C3: Prgm::chck accepts a definition only if checking its body produced the
\* definite behaviour T, with T the definition's declared return type.
C3_BodyIsDeclaredType ==
    Accepted(chk1) =>
        \A i \in 1..Len(prgm.defs) :
            chk1.rtns[prgm.defs[i].name] = RType(prgm.defs[i].rety)

\* C4: a program whose main block holds a return at any depth is a check
\* error, and the main block of every accepted program has Rtns Void.
C4_MainNeverReturns ==
    chk1.done =>
        /\ BlckReturns(prgm.main) => chk1.err.kind = "DwislpyError"
        /\ ~IsError(chk1.err) => holds_Void(chk1.rtns[MainScope])

\* A main script whose only returns are nested in an if/else or a while was
\* checked up to one of them and rejected there.
C4_NestedReturnRejected ==
    /\ chk1.done
    /\ prgm.defs = <<>>
    /\ BlckReturns(prgm.main)
    /\ \A i \in 1..Len(prgm.main) : prgm.main[i].node \in {"Whle", "Tern"}
    /\ chk1.err \in {DwislpyError("Unexpected return for void function."),
                     DwislpyError("Unexpected return for void procedure.")}

\* C5: interpreter-compiler equivalence.  When the program interpreted
\* without error and its emitted code ran to its end, the two wrote the same
\* text to standard output.
C5_SameOutput ==
    (pc = "halted" /\ ~M.fault /\ ran.done /\ ~IsError(ran.err)) => M.out = ran.out

\* C6: for a program Prgm::chck accepted, Prgm::compile (translation, then
\* emission) completes without raising any error.
C6_CheckedProgramEmits ==
    (Accepted(chk1) /\ R.done) => ~IsError(R.err)

\* C7: label uniqueness.  In the output emitted for one program every label
\* name has exactly one definition site.
C7_LabelsUnique ==
    (R.done /\ ~IsError(R.err)) =>
        \A i \in 1..Len(LabelSites(prgm, R)) :
            Cardinality(Sites(LabelSites(prgm, R), LabelSites(prgm, R)[i])) = 1

\* The locals and temps of a scope after compile_defn, which appended the
\* two saved registers to them.
locls_and_temps(symt) == get_locls_size(symt) - 2

C9_RecheckSame ==
    (Accepted(chk1) /\ chk2.done) =>
        /\ ~IsError(chk2.err)
        /\ chk2.tys = chk1.tys
        /\ chk2.brs = chk1.brs
        /\ chk2.rtns = chk1.rtns

\* C10: when dwislpy runs without --test and a phase throws a DwislpyError,
\* the message is written to standard error and the exit status is not 0.
C10_ErrorExitsNonZero ==
    (pc = "exited" /\ cmd = "dwislpy" /\ ~testing /\ caught.kind = "DwislpyError") =>
        (errout # "" /\ status # "0")

\* The events of the interpreter's history, by kind.
RunEvents(ev) == {i \in 1..Len(ran.log) : ran.log[i].ev = ev}
Followed(i) == i < Len(ran.log)

\* C11: a call whose body executes a bare return, and a call whose body ends
\* without executing a return, both yield the none value.
C11_ReturnsNone ==
    ran.done =>
        /\ \A i \in RunEvents("done") :
              (ran.log[i].st.node = "Retn") => (ran.log[i].has /\ ran.log[i].v = NoneV)
        /\ \A i \in RunEvents("back") :
              (~ran.log[i].has /\ Followed(i) /\ ran.log[i + 1].ev = "value")
                  => ran.log[i + 1].v = NoneV

\* C12: a Some(v) starts at a return statement and passes through the
\* enclosing blocks, if/else and while of its call only: nothing else of that
\* call executes, the call's result is v, and the call catches it; a
\* statement that yields None is followed by the next statement of its block.
C12_ReturnPropagates ==
    ran.done =>
        /\ \A i \in RunEvents("done") :
              ran.log[i].has =>
                  /\ ran.log[i].st.node \in {"Retn", "RetE", "Whle", "Tern"}
                  /\ Followed(i)
                  /\ ran.log[i + 1].ev \in {"done", "back"}
                  /\ ran.log[i + 1].d = ran.log[i].d
                  /\ ran.log[i + 1].has
                  /\ ran.log[i + 1].v = ran.log[i].v
        /\ \A i \in RunEvents("back") :
              (ran.log[i].has /\ Followed(i) /\ ran.log[i + 1].ev = "value")
                  => ran.log[i + 1].v = ran.log[i].v
        /\ \A i \in RunEvents("done") :
              (~ran.log[i].has /\ Followed(i)) =>
                  IF ran.log[i].i < ran.log[i].len
                  THEN ran.log[i + 1] = [ev |-> "stmt", d |-> ran.log[i].d, i |-> ran.log[i].i + 1]
                  ELSE ran.log[i + 1] = [ev |-> "end", d |-> ran.log[i].d]

\* Whether two Ctxt agree on every name but nm.
SameBut(before, after, nm) ==
    /\ DOMAIN after \ {nm} = DOMAIN before \ {nm}
    /\ \A n \in DOMAIN before \ {nm} : after[n] = before[n]

\* C13: a call's environment at its start binds exactly the callee's formals,
\* each to the value of its argument, and the statement that made the call
\* leaves the caller's environment as it was, but for the name it assigns.
C13_FreshEnvironment ==
    ran.done =>
        /\ \A i \in RunEvents("call") :
              LET c == ran.log[i] IN
              /\ DOMAIN c.fctxt = {c.frmls[k] : k \in 1..Len(c.frmls)}
              /\ \A k \in 1..Len(c.args) :
                    /\ c.args[k].node = "Ltrl" => c.fctxt[c.frmls[k]] = c.args[k].valu
                    /\ c.args[k].node = "Lkup" => c.fctxt[c.frmls[k]] = c.ctxt[c.args[k].name]
        /\ \A i \in RunEvents("done") :
              LET s == ran.log[i] IN
              /\ s.st.node \in {"Proc", "Prnt", "Pass", "Retn", "RetE"} => s.after = s.before
              /\ s.st.node \in {"Asgn", "Ntro", "PlEq", "MiEq"}
                    => SameBut(s.before, s.after, s.st.name)

\* A callee changed its formal x and returned; the caller, which holds x and
\* y, then went on with x as it was.
C13_CalleeUpdatedItsOwn ==
    /\ ran.done /\ ~IsError(ran.err)
    /\ \E i \in RunEvents("call") : DOMAIN ran.log[i].ctxt = {"x", "y"}
    /\ \E i \in RunEvents("done") :
          /\ ran.log[i].d = 1 /\ ran.log[i].st.node = "MiEq"
          /\ ran.log[i].after["x"] # ran.log[i].before["x"]
    /\ \E i \in RunEvents("done") :
          /\ ran.log[i].d = 0 /\ ran.log[i].st.node = "Asgn"
          /\ ran.log[i].after["y"] # ran.log[i].before["y"]
          /\ ran.log[i].after["x"] = ran.log[i].before["x"]

\* C14: `a and b` and `a or b` evaluate the left operand first and then the
\* right operand, whatever the left operand's truthiness.
C14_BothOperands ==
    ran.done =>
        /\ \A i \in RunEvents("eval") :
              ran.log[i].e.node \in {"Conj", "Disj"}
                  => (Followed(i) /\ ran.log[i + 1] = [ev |-> "eval", e |-> ran.log[i].e.left])
        /\ \A i \in RunEvents("left") :
              ran.log[i].e.node \in {"Conj", "Disj"}
                  => (Followed(i) /\ ran.log[i + 1] = [ev |-> "eval", e |-> ran.log[i].e.rght])

\* The left operand decided the result, and the right operand still wrote
\* its prompt, or still raised its division by 0.
C14_RightOperandActed ==
    /\ ran.done
    /\ \E i \in RunEvents("left") :
          /\ ran.log[i].e.node = "Conj" /\ ~predicate(ran.log[i].v)
          /\ \/ ran.log[i].e.rght.node = "Inpt" /\ ran.out = "?False\n"
             \/ ran.log[i].e.rght = DivByZero
                /\ ran.err = DwislpyError("Run-time error: division by 0.")

\* C15: l == r is true exactly when the two values are of the same kind and
\* equal, false otherwise, and raises no error.
C15_EqualByValue ==
    ran.done =>
        /\ \A i \in RunEvents("binop") :
              ran.log[i].node = "Eqal" => ran.log[i].v = BoolV(ran.log[i].lv = ran.log[i].rv)
        /\ \A i \in RunEvents("rght") :
              ran.log[i].e.node = "Eqal" => (Followed(i) /\ ran.log[i + 1].ev = "binop")

\* The positions of the first check's history that hold an event of kind ev.
ChkEvents(ev) == {i \in 1..Len(chk1.log) : chk1.log[i].ev = ev}

\* A body, of a definition whose formal x is an int, that returns x and
\* returns a string, and introduces nothing.
MixedReturns(def) ==
    /\ def.frmls = IntX
    /\ \A i \in 1..Len(def.blck) : def.blck[i].node # "Ntro"
    /\ \E i, j \in 1..Len(def.blck) :
          def.blck[i] = RetE(Lkup("x")) /\ def.blck[j] = RetE(StrA)

\* C16: Blck::chck starts from Void and updates retn by each statement's Rtns
\* as seq does: seq(Void, x) = x, seq(VoidOr(T), T) = T, seq(VoidOr(T),
\* VoidOr(T)) = VoidOr(T), seq(T, _) = T; no block is passed whose statements'
\* Rtns carry different types, and a block returning values of different
\* types is a check error.
C16_SeqFold ==
    chk1.done =>
        /\ \A i \in ChkEvents("step") :
              LET s == chk1.log[i] IN
              /\ s.i = 1 => holds_Void(s.retn)
              /\ holds_Void(s.retn) => s.next = s.stmt_rtns
              /\ (holds_VoidOr(s.retn) /\ holds_Type(s.stmt_rtns)
                    /\ TypeEq(s.retn.type, s.stmt_rtns.type)) => s.next = s.stmt_rtns
              /\ (holds_VoidOr(s.retn) /\ holds_VoidOr(s.stmt_rtns)
                    /\ TypeEq(s.retn.type, s.stmt_rtns.type)) => s.next = s.retn
              /\ holds_Type(s.retn) => s.next = s.retn
              /\ (~holds_Void(s.retn) /\ ~holds_Void(s.stmt_rtns))
                    => TypeEq(s.retn.type, s.stmt_rtns.type)
        /\ \A k \in 1..Len(prgm.defs) : MixedReturns(prgm.defs[k]) => IsError(chk1.err)

\* An accepted program with a block that goes from VoidOr(T) to T at a
\* definite return, and then has a further statement.
C16_DeadStatementAccepted ==
    /\ Accepted(chk1)
    /\ \E i \in ChkEvents("step") :
          /\ holds_VoidOr(chk1.log[i].retn) /\ holds_Type(chk1.log[i].stmt_rtns)
          /\ Len(chk1.log) > i /\ chk1.log[i + 1].ev = "step"
          /\ chk1.log[i + 1].i = chk1.log[i].i + 1
          /\ chk1.log[i + 1].retn = chk1.log[i].next
          /\ holds_Void(chk1.log[i + 1].stmt_rtns)
          /\ holds_Type(chk1.log[i + 1].next)

\* C17: `return e` passes the check only when e has the expected type T, and
\* then has Rtns T; a bare `return` passes only when the expected type is
\* None, and then has Rtns None.
C17_ReturnRtns ==
    chk1.done =>
        \A i \in ChkEvents("ret") :
            LET r == chk1.log[i] IN
            /\ ~holds_Void(r.expd)
            /\ TypeEq(r.expn_ty, type_of(r.expd))
            /\ r.rtns = RType(type_of(r.expd))

\* C18: once the check has typed a printed expression, the node's type field
\* holds that type.
C18_TypeFieldAssigned ==
    chk1.done =>
        \A i \in ChkEvents("prnt") : chk1.log[i].field = chk1.log[i].type

\* C19: introducing a name that is already an entry of the scope's symbol
\* table is a check error, and the entry keeps its type.
C19_DuplicateIntroduction ==
    chk1.done =>
        /\ (\E i \in ChkEvents("ntro") : chk1.log[i].had) => IsError(chk1.err)
        /\ \A i \in ChkEvents("ntro") :
              LET n == chk1.log[i] IN
              n.had => get_info(S[n.sc], n.name).type = n.was

\* Whether a condition over literals is true: a literal by its truthiness, a
\* sum by being other than 0, < and == by the values of their operands, and /
\* or / not by their tables.
RECURSIVE CondTrue(_)
CondTrue(c) ==
    CASE c.node = "Ltrl" -> predicate(c.valu)
      [] c.node = "Plus" -> c.left.valu.i + c.rght.valu.i # 0
      [] c.node = "Less" -> c.left.valu.i < c.rght.valu.i
      [] c.node = "Eqal" -> c.left.valu = c.rght.valu
      [] c.node = "Conj" -> CondTrue(c.left) /\ CondTrue(c.rght)
      [] c.node = "Disj" -> CondTrue(c.left) \/ CondTrue(c.rght)
      [] c.node = "Negt" -> ~CondTrue(c.expn)

\* C20: the code emitted for `if c: print(1) else: print(2)`, c built from
\* and, or, not, reaches the then branch exactly when c is true and the else
\* branch exactly when c is false.
C20_CondTransfers ==
    (pc = "halted" /\ ~M.fault /\ prgm \in CondPrgms) =>
        M.out = (IF CondTrue(prgm.main[1].expn) THEN "1\n" ELSE "2\n")

\* The position of the first label of a scope's code after its entry label.
FirstLabel(code) ==
    CHOOSE k \in 2..Len(code) :
        code[k].op = "LBL" /\ \A j \in 2..(k - 1) : code[j].op # "LBL"

\* C21: the code emitted for a condition of a variant without a trans_cndn of
\* its own ends in BCZ gtz on a temp, to the then label or the else label, so
\* that control never runs from the condition into the code after it.
C21_DefaultCondLowering ==
    (R.done /\ ~IsError(R.err) /\ prgm \in DfltPrgms) =>
        LET code == R.codes[MainScope]
            k == FirstLabel(code)
        IN  /\ code[k - 1].op = "BCZ"
            /\ code[k - 1].cndn = "gtz"
            /\ get_info(R.S[MainScope], code[k - 1].src).kind = TEMP
            /\ code[k - 1].lblt = code[k].lbl
            /\ code[k - 1].lblf # code[k].lbl

\* The loops of the emitted text: the positions <<p, b, j>> of a loop's
\* label, of the first label after it (the body's, the explored conditions
\* holding no label of their own), and of the jump back to the loop's label.
Loops(tx) ==
    {w \in (1..Len(tx)) \X (1..Len(tx)) \X (1..Len(tx)) :
        /\ w[1] < w[2] /\ w[2] < w[3]
        /\ tx[w[1]].inst.op = "LBL"
        /\ tx[w[3]].inst = JMP(tx[w[1]].inst.lbl)
        /\ tx[w[2]].inst.op = "LBL"
        /\ \A k \in (w[1] + 1)..(w[2] - 1) : tx[k].inst.op # "LBL"}

\* The position the machine went to after the h-th instruction it executed.
PcAfter(h) == IF h < Len(M.hist) THEN M.hist[h + 1].pc ELSE M.pc

Transfers == {"JMP", "BCN", "BCZ"}

\* How many times the interpreter executed a statement of kind node.
Executed(node) ==
    Cardinality({i \in RunEvents("done") : ran.log[i].st.node = node})

\* How many times the machine has executed the instruction at position k.
Visits(k) == Cardinality({h \in 1..Len(M.hist) : M.hist[h].pc = k})

\* C22: a while loop is emitted as its loop label, the condition's code
\* targeting the body label and the done label, the body label, the body, a
\* jump to the loop label and the done label; run, the body is entered only
\* from the condition's code, as many times as the condition is true, and
\* the loop is left only at the done label or by a return of the body.
C22_WhileLoop ==
    (R.done /\ ~IsError(R.err) /\ Assembles(prgm, R)) =>
        LET tx == Text(prgm, R) IN
        \A w \in Loops(tx) :
            LET p == w[1]
                b == w[2]
                j == w[3]
                exit == tx[p].sc \o "_done"
                retn(k) == tx[k].inst = JMP(exit) /\ tx[k - 1].inst.op = "RTN"
            IN  /\ j < Len(tx) /\ tx[j + 1].inst.op = "LBL"
                /\ Cardinality({tx[p].inst.lbl, tx[b].inst.lbl, tx[j + 1].inst.lbl}) = 3
                /\ \A k \in (p + 1)..(b - 1) :
                      inst_lbls(tx[k].inst) \subseteq {tx[b].inst.lbl, tx[j + 1].inst.lbl}
                /\ \A h \in 1..Len(M.hist) :
                      /\ M.hist[h].pc = b =>
                            (/\ h > 1
                             /\ M.hist[h - 1].pc \in (p + 1)..(b - 1)
                             /\ tx[M.hist[h - 1].pc].inst.op \in Transfers)
                      /\ (M.hist[h].pc \in p..j /\ PcAfter(h) \notin p..j) =>
                            \/ PcAfter(h) = j + 1
                            \/ retn(M.hist[h].pc)
                            \/ tx[M.hist[h].pc].inst.op = "CLL"
                /\ prgm \in WhlePrgms => Visits(b) <= Executed("MiEq")
                /\ (prgm \in WhlePrgms /\ pc = "halted") => Visits(b) = Executed("MiEq")

\* The positions of a scope's code that store to the name nm.
Writes(code, nm) ==
    {k \in 1..Len(code) :
        code[k].op \in {"SET", "STL", "MOV", "RTV", "GTI", "ADD", "SUB", "MLT", "DIV", "MOD"}
        /\ code[k].dst = nm}

\* C23: a call of n arguments is emitted as the code that evaluates the
\* arguments into n temps of their own, left to right, then one ARG for each
\* index below n, every index within 0..3, each loading its argument's temp,
\* and CLL right after them (then RTV, when the call's value is used).
C23_CallSequence ==
    (R.done /\ ~IsError(R.err)) =>
        \A sc \in DOMAIN R.codes :
            LET code == R.codes[sc] IN
            \A k \in 1..Len(code) :
                code[k].op = "CLL" =>
                    LET n == Len(defs_at(prgm, code[k].lbl).frmls)
                        src(i) == code[k - 1 - i].src
                    IN  /\ k > n
                        /\ \A i \in 0..(n - 1) :
                              /\ code[k - 1 - i] = ARG(i, src(i))
                              /\ i \in 0..3
                              /\ get_info(R.S[sc], src(i)).kind = TEMP
                              /\ \A m \in Writes(code, src(i)) : m < k - n
                              /\ \A i2 \in (i + 1)..(n - 1) :
                                    /\ src(i2) # src(i)
                                    /\ \A m \in Writes(code, src(i)) :
                                          \A m2 \in Writes(code, src(i2)) : m < m2
                        /\ code[k - 1 - n].op # "ARG"
                        /\ defs_at(prgm, code[k].lbl).rety # NoneTy => code[k + 1].op = "RTV"

\* The registers after the h-th instruction the machine executed.
RegsAfter(h) == IF h < Len(M.hist) THEN M.hist[h + 1] ELSE M

\* The executions of `op` so far, as positions of the machine's history.
Ran(op) == {h \in 1..Len(M.hist) : Text(prgm, R)[M.hist[h].pc].inst.op = op}

\* The LEAVE that ends the frame the ENTER at h set up: the first one
\* after h executed with that frame's pointer.
LeaveOf(h) ==
    {l \in Ran("LEAVE") :
        /\ l > h /\ M.hist[l].fp = M.hist[h].sp
        /\ \A l2 \in Ran("LEAVE") : (l2 > h /\ M.hist[l2].fp = M.hist[h].sp) => l <= l2}

\* C24: the LEAVE of a frame leaves $sp and $fp as they were just before the
\* frame's ENTER, and jumps to the address $ra held at that ENTER.
C24_StackDiscipline ==
    (pc \in {"spim", "halted"}) =>
        \A h \in Ran("ENTER") : \A l \in LeaveOf(h) :
            /\ RegsAfter(l).sp = M.hist[h].sp
            /\ RegsAfter(l).fp = M.hist[h].fp
            /\ RegsAfter(l).pc = M.hist[h].ra

\* The returns of a scope's code: the positions of its RTN instructions.
Rtns_of(code) == {k \in 1..Len(code) : code[k].op = "RTN"}

RECURSIVE ReturnCount(_)
\* How many return statements a block holds, at any depth.
ReturnCount(b) ==
    IF Len(b) = 0 THEN 0
    ELSE ReturnCount(Tail(b))
         + (CASE b[1].node \in {"Retn", "RetE"} -> 1
              [] b[1].node = "Whle" -> ReturnCount(b[1].blck)
              [] b[1].node = "Tern" -> ReturnCount(b[1].if_blck) + ReturnCount(b[1].else_blck)
              [] OTHER -> 0)

C26_PlusCommutes ==
    joined.done =>
        LET swapped == plus(ret2, ret1)
        IN  /\ IsError(joined.err) <=> IsError(swapped.err)
            /\ ~IsError(joined.err) => joined.rtns = swapped.rtns

\* C27: value mode writes its destination.  The code a checked program's
\* expression is lowered to stores to dest before control leaves it, so no
\* executed instruction loads a frame slot that nothing has stored to.
C27_DestWritten ==
    \A h \in 1..Len(M.hist) : M.hist[h].unw = {}

\* The variables of a laid-out scope: the names the parser and the check
\* entered, the positions in locals of the translation's temps, and the
\* positions of the two saved-register slots that compile_defn added last.
UserVars(sc) ==
    {S[sc].formals[i] : i \in 1..Len(S[sc].formals)}
        \cup {S[sc].locals[i] : i \in 1..Len(S[sc].locals)}
TempSlots(sc) == (Len(S[sc].locals) + 1)..(Len(R.S[sc].locals) - 2)
SavedSlots(sc) == (Len(R.S[sc].locals) - 1)..Len(R.S[sc].locals)

\* C28: after checking, translation and frame layout of a scope, distinct
\* variables (formals, introduced locals, temps, the two saved-register slots)
\* have distinct frame offsets, and the name the anonymous add_temp returns,
\* like the name of a saved-register slot, is not already an entry of the
\* table, whatever names the program's variables have.
C28_DistinctSlots ==
    (R.done /\ ~IsError(R.err)) =>
        \A sc \in DOMAIN R.S :
            LET T == R.S[sc]
            IN  /\ \A k \in TempSlots(sc) \cup SavedSlots(sc) :
                      /\ T.locals[k] \notin UserVars(sc)
                      /\ \A j \in 1..(k - 1) : T.locals[j] # T.locals[k]
                /\ Cardinality({get_frame_offset(T, nm) : nm \in DOMAIN T.sym_table})
                      = Cardinality(UserVars(sc)) + Cardinality(TempSlots(sc)) + 2

\* The error Lkup::eval throws for a name the context lacks.
NotDefined(err) ==
    \E nm \in {"x", "y"} :
        err = DwislpyError("Run-time error: variable '" \o nm \o "'not defined.")

\* C29: the check is sound for the use of variables.  Interpreting a program
\* that Prgm::chck accepts never throws the run-time error "variable not
\* defined", also when a variable is read in its own initialiser, or after an
\* introduction in one branch of an if/else or in the body of a while.
C29_DefinedWhenRead ==
    (Accepted(chk1) /\ ran.done) => ~NotDefined(ran.err)

\* The frame offsets of a scope's locals, temps and saved-register slots.
OwnSlots(symt) ==
    {get_frame_offset(symt, nm) :
        nm \in {n \in DOMAIN symt.sym_table : get_info(symt, n).kind # FRML}}
\* The frame offsets a scope's ENTER and body store to.
WrittenSlots(symt) == {get_frame_offset(symt, nm) : nm \in DOMAIN symt.sym_table}

\* C30: frames are disjoint across calls.  The callee's frame pointer is the
\* caller's stack pointer, frame_size below the caller's frame pointer; no
\* slot the callee stores to (a formal at 0, 4, ..., a local, a temp, a saved
\* register) is a local, a temp or a saved register of the caller, for every
\* call the check accepts and at every ENTER the machine executes.
C30_FramesDisjoint ==
    (R.done /\ ~IsError(R.err)) =>
        /\ \A sc \in DOMAIN R.codes :
              \A k \in 1..Len(R.codes[sc]) :
                  R.codes[sc][k].op = "CLL" =>
                      LET caller == R.S[sc]
                          callee == R.S[R.codes[sc][k].lbl]
                      IN  {o - caller.frame_size : o \in WrittenSlots(callee)}
                              \cap OwnSlots(caller) = {}
        /\ \A h \in Ran("ENTER") :
              h > 1 =>
                  LET tx == Text(prgm, R)
                      caller == R.S[tx[M.hist[h - 1].pc].sc]
                      callee == R.S[tx[M.hist[h].pc].sc]
                  IN  {M.hist[h].sp + o : o \in WrittenSlots(callee)}
                          \cap {M.hist[h].fp + o : o \in OwnSlots(caller)} = {}

====
